---- MODULE Spec2Model ----
(***************************************************************************)
(* Kaban core engine: the task table, its audit triggers and the task      *)
(* service (addTask / moveTask / deleteTask), run by several processes     *)
(* that share one SQLite file.  Every SQL statement is one atomic step;    *)
(* a service call is the sequence of its statements, so calls of different *)
(* processes interleave between statements.                                *)
(***************************************************************************)
EXTENDS Integers, Sequences, FiniteSets, TLC

\* ---------------------------------------------------------------- bounds
MaxTasks == 3          \* global ids (ULIDs) that can be handed out
MaxOps   == 3          \* service calls started in one behaviour
NumProcs == 2          \* processes holding the database open
MaxSeed  == 1          \* tasks already on the board when SpecInsert starts
MaxTitle == 4          \* pieces of a task title handed to the Markdown codec
MaxRows  == 2          \* rows of audits when getHistory is asked
MaxCalls == 2          \* calls of each kind made to one ScoringService
MaxDay   == 3          \* days the wall clock covers while tasks are scored

Procs   == 1..NumProcs
TaskIds == 1..MaxTasks

\* ------------------------------------------------------------ null values
NullText == "null"     \* SQL NULL in a text column
NullTime == 0          \* SQL NULL in a timestamp column (clock starts at 1)
NoTask   == [id |-> 0] \* getTask(id) returning null

\* --------------------------------------------------- board configuration
\* DEFAULT_CONFIG: the columns initializeBoard creates.
ColumnIds == {"backlog", "todo", "in_progress", "review", "done"}

\* column.wipLimit; 0 stands for "no limit" (null is falsy in the WIP test)
WipLimit(c) ==
  CASE c = "in_progress" -> 3
    [] c = "review"      -> 2
    [] OTHER             -> 0

\* column.isTerminal
IsTerminal(c) == c = "done"

\* column.name
ColumnName(c) ==
  CASE c = "backlog"     -> "Backlog"
    [] c = "todo"        -> "Todo"
    [] c = "in_progress" -> "In Progress"
    [] c = "review"      -> "Review"
    [] c = "done"        -> "Done"
    [] OTHER             -> NullText

\* ----------------------------------------------------------- input sets
AddColumns  == {"todo", "review", "nope"}          \* addTask columnId
MoveColumns == {"review", "done", "nope"}          \* moveTask columnId
Agents      == {"claude"}                          \* assign agent
Titles      == {"T1"}                              \* addTask title
NewTitles   == {"T1", "T2"}                        \* updateTask title

\* ------------------------------------------------------------ migrations
\* the journal: the migration scripts in order
Journal == <<"0001_add_archived", "0005_audit_log">>

\* number of statements between the statement-breakpoint markers of a script
StatementCount(tag) ==
  CASE tag = "0001_add_archived" -> 2
    [] tag = "0005_audit_log"    -> 7

\* every statement of every script
AllStatements ==
  UNION {{<<Journal[i], n>> : n \in 1..StatementCount(Journal[i])} : i \in 1..Len(Journal)}

AllTags == {Journal[i] : i \in 1..Len(Journal)}

VARIABLES
  schema,     \* the migration statements that have taken effect: <<tag, number>>
  migrated,   \* rows of table __drizzle_migrations (set of tags)
  boards,     \* rows of table boards (set of board ids)
  columns,    \* rows of table columns (set of column ids)
  tasks,      \* rows of table tasks: function from the live ids to rows
  links,      \* rows of table task_links: set of [from, to, type]
  audits,     \* rows of table audits, in id order
  nextUlid,   \* the next global id ulid() returns
  clock,      \* wall clock: advances by one at every service call started
  proc,       \* per process: the call in progress and its local variables
  result,     \* per process: outcome of its last finished call
  forceUsed,  \* history: some moveTask ran with force = true
  assigned,   \* history: every (task id, boardTaskId) ever inserted
  codec,      \* the Markdown codec at work: board given, document, parse result
  answer,     \* the last read-only query: its arguments and what it returned
  scoring,    \* the ScoringService: its scorers and the scoreTask calls under way
  app         \* the AppState of the TUI: the active modal and the column in focus

vars == <<schema, migrated, boards, columns, tasks, links, audits, nextUlid, clock,
          proc, result, forceUsed, assigned, codec, answer, scoring, app>>

\* ------------------------------------------------------------- helpers
\* the codec has not been used
NoCodec == [stage |-> "none"]

\* no query has run
NoAnswer == [op |-> "none"]

\* the AppState the TUI starts with: no modal, the first column in focus
NewApp ==
  [activeModal |-> "none", currentColumnIndex |-> 0, modalOverlay |-> FALSE,
   taskInput |-> FALSE, exited |-> FALSE]

\* scoreTask calls that can be under way at once
Slots == 1..MaxCalls

\* a slot without a call
NoCall == [state |-> "none"]

\* new ScoringService(): no scorers, nothing scored yet. changes counts
\* the addScorer and removeScorer calls made, started the scoreTask calls; evaluations is the record of every
\* scorer.score call made: scorer, task, now and the value
NewScoringService ==
  [scorers |-> << >>, calls |-> [s \in Slots |-> NoCall], changes |-> 0,
   started |-> 0,
   ranking |-> << >>, ranked |-> << >>, evaluations |-> {}]

Live == DOMAIN tasks

Max(S, dflt) == IF S = {} THEN dflt ELSE CHOOSE x \in S : \A y \in S : y <= x

\* SELECT COALESCE(MAX(position), -1) FROM tasks WHERE column_id = c
MaxPosition(c) == Max({tasks[t].position : t \in {u \in Live : tasks[u].columnId = c}}, -1)

\* SELECT COUNT(*) FROM tasks WHERE column_id = c
getTaskCountInColumn(c) == Cardinality({t \in Live : tasks[t].columnId = c})

\* getTask(id): the row or null
getTask(id) == IF id \in Live THEN tasks[id] ELSE NoTask

\* boardService.getColumn(columnId) finds a row
getColumn(c) == c \in columns

\* mutant: the id is taken from the number of rows instead of the highest id
NextBoardTaskId_count == Cardinality(DOMAIN tasks) + 1

\* (SELECT COALESCE(MAX(t.board_task_id), 0) + 1 FROM tasks t JOIN columns c ...)
NextBoardTaskId == Max({tasks[t].boardTaskId : t \in Live}, 0) + 1

Idle == [pc |-> "idle", id |-> 0, col |-> NullText, force |-> FALSE,
         title |-> NullText, task |-> NoTask, pos |-> 0, now |-> 0,
         to |-> 0, linkType |-> NullText, dependsOn |-> << >>,
         toApply |-> << >>, applied |-> << >>,
         items |-> << >>, createdTasks |-> << >>]

NoResult == [op |-> "none", code |-> "none", id |-> 0, col |-> NullText,
             force |-> FALSE, count |-> 0, limit |-> 0, to |-> 0,
             path |-> << >>]

Res(op, code, id, col, force) ==
  [op |-> op, code |-> code, id |-> id, col |-> col, force |-> force,
   count |-> 0, limit |-> 0, to |-> 0, path |-> << >>]

\* ------------------------------------------------------- audit triggers
AuditRow(ev, id, field, old, new, actor, json) ==
  [id |-> 0, eventType |-> ev, objectType |-> "task", objectId |-> id,
   fieldName |-> field, oldValue |-> old, newValue |-> new,
   actor |-> actor, json |-> json]

NoJson == [title |-> NullText, columnId |-> NullText]

\* the WHERE clause of each conditional INSERT of audit_task_update
IsDistinct(old, new) ==
  \/ (old = NullText /\ new # NullText)
  \/ (old # NullText /\ new = NullText)
  \/ (old # NullText /\ new # NullText /\ old # new)

BoolText(b) == IF b THEN "1" ELSE "0"

\* audit_task_insert
AuditTaskInsert(new) ==
  << AuditRow("CREATE", new.id, NullText, NullText, NullText, new.createdBy,
              [title |-> new.title, columnId |-> new.columnId]) >>

FieldRow(old, new, field, o, n) ==
  IF IsDistinct(o, n)
    THEN << AuditRow("UPDATE", old.id, field, o, n, new.updatedBy, NoJson) >>
    ELSE << >>

\* audit_task_update
AuditTaskUpdate(old, new) ==
     FieldRow(old, new, "title", old.title, new.title)
  \o FieldRow(old, new, "columnId", old.columnId, new.columnId)
  \o FieldRow(old, new, "assignedTo", old.assignedTo, new.assignedTo)
  \o FieldRow(old, new, "description", old.description, new.description)
  \o FieldRow(old, new, "archived", BoolText(old.archived), BoolText(new.archived))
  \o FieldRow(old, new, "labels", old.labels, new.labels)

\* audit_task_delete
AuditTaskDelete(old) ==
  << AuditRow("DELETE", old.id, NullText, NullText, NullText, NullText,
              [title |-> old.title, columnId |-> old.columnId]) >>

\* mutant: the key column restarts at one for every row
Autoincrement_restart(table) == 1

\* id INTEGER PRIMARY KEY AUTOINCREMENT: one more than the largest id the
\* table ever held; the table is kept in id order and no statement deletes
\* audit rows, so that is the id of its last row
Autoincrement(table) ==
  IF table = << >> THEN 1 ELSE table[Len(table)].id + 1

\* INSERT INTO audits (...) of a trigger, once per row the trigger emits
RECURSIVE InsertAudits(_, _)
InsertAudits(table, rows) ==
  IF rows = << >>
    THEN table
    ELSE InsertAudits(Append(table, [Head(rows) EXCEPT !.id = Autoincrement(table)]),
                      Tail(rows))

\* ------------------------------------------------------------ statements
\* INSERT INTO tasks ... ; fires audit_task_insert
InsertTask(row) ==
  /\ tasks' = [t \in Live \cup {row.id} |-> IF t = row.id THEN row ELSE tasks[t]]
  /\ audits' = InsertAudits(audits, AuditTaskInsert(row))

\* mutant: the update trigger is missing, the row changes without audit rows
UpdateTask_noaudit(row) ==
  IF row.id \in Live
    THEN /\ tasks' = [tasks EXCEPT ![row.id] = row]
         /\ audits' = audits
    ELSE UNCHANGED <<tasks, audits>>

\* UPDATE tasks SET ... WHERE id = row.id ; fires audit_task_update per row
UpdateTask(row) ==
  IF row.id \in Live
    THEN /\ tasks' = [tasks EXCEPT ![row.id] = row]
         /\ audits' = InsertAudits(audits, AuditTaskUpdate(tasks[row.id], row))
    ELSE UNCHANGED <<tasks, audits>>

\* mutant: the foreign keys of task_links are not enforced, no cascade
DeleteRow_nocascade(id) ==
  IF id \in Live
    THEN /\ tasks' = [t \in Live \ {id} |-> tasks[t]]
         /\ audits' = InsertAudits(audits, AuditTaskDelete(tasks[id]))
         /\ links' = links
    ELSE UNCHANGED <<tasks, audits, links>>

\* DELETE FROM tasks WHERE id = id ; fires audit_task_delete, cascades links
DeleteRow(id) ==
  IF id \in Live
    THEN /\ tasks' = [t \in Live \ {id} |-> tasks[t]]
         /\ audits' = InsertAudits(audits, AuditTaskDelete(tasks[id]))
         /\ links' = {l \in links : l.from # id /\ l.to # id}
    ELSE UNCHANGED <<tasks, audits, links>>

\* ------------------------------------------------------------------ Init
Init ==
  /\ schema = AllStatements
  /\ migrated = AllTags
  /\ boards = {}
  /\ columns = {}
  /\ tasks = [t \in {} |-> NoTask]
  /\ links = {}
  /\ audits = << >>
  /\ nextUlid = 1
  /\ clock = 0
  /\ proc = [p \in Procs |-> Idle]
  /\ result = [p \in Procs |-> NoResult]
  /\ forceUsed = FALSE
  /\ assigned = {}
  /\ codec = NoCodec
  /\ answer = NoAnswer
  /\ app = NewApp
  /\ scoring = NewScoringService

\* a process starts a service call
Begin(p) ==
  /\ boards # {}
  /\ proc[p].pc = "idle"
  /\ clock < MaxOps
  /\ clock' = clock + 1

\* boardService.initializeBoard(DEFAULT_CONFIG): no-op when a board exists
InitializeBoard ==
  /\ boards = {}
  /\ boards' = {"board"}
  /\ columns' = ColumnIds
  /\ UNCHANGED <<app, schema, migrated, tasks, links, audits, nextUlid, clock, codec, answer, scoring,
                 proc, result, forceUsed, assigned>>

\* ------------------------------------------------------------- addTask
\* validateColumnId + getColumn: unknown column => VALIDATION;
\* dependsOn: input.dependsOn ?? [] is stored as given
\* length of the titles the model uses
TitleLength(title) ==
  CASE title = "" -> 0
    [] title = "LONG" -> 201
    [] OTHER -> 2

\* validateTitle: non-empty and at most 200 characters
validateTitle(title) == TitleLength(title) >= 1 /\ TitleLength(title) <= 200

NewTask(id, btid, title, col, pos, deps) ==
  [id |-> id, boardTaskId |-> btid, title |-> title, description |-> NullText,
   columnId |-> col, position |-> pos, createdBy |-> "user",
   assignedTo |-> NullText, dependsOn |-> deps, labels |-> "[]", version |-> 1,
   startedAt |-> NullTime, completedAt |-> NullTime,
   archived |-> FALSE, archivedAt |-> NullTime, updatedBy |-> NullText]

\* mutant: the row is inserted before the column is looked up
AddTaskStart_insertFirst(p, title, col, deps) ==
  /\ Begin(p)
  /\ IF ~validateTitle(title)
       THEN /\ proc' = [proc EXCEPT ![p] = Idle]
            /\ result' = [result EXCEPT ![p] =
                 Res("addTask", "VALIDATION", 0, NullText, FALSE)]
            /\ UNCHANGED <<tasks, audits, nextUlid>>
     ELSE IF getColumn(col)
       THEN /\ proc' = [proc EXCEPT ![p] =
                 [Idle EXCEPT !.pc = "add_pos", !.col = col, !.title = title,
                              !.dependsOn = deps]]
            /\ result' = [result EXCEPT ![p] = NoResult]
            /\ UNCHANGED <<tasks, audits, nextUlid>>
       ELSE /\ nextUlid <= MaxTasks
            /\ InsertTask(NewTask(nextUlid, NextBoardTaskId, title, col, 0, deps))
            /\ nextUlid' = nextUlid + 1
            /\ proc' = [proc EXCEPT ![p] = Idle]
            /\ result' = [result EXCEPT ![p] =
                 Res("addTask", "VALIDATION", 0, col, FALSE)]
  /\ UNCHANGED <<app, schema, migrated, boards, columns, codec, answer, scoring, links, forceUsed, assigned>>

AddTaskStart(p, title, col, deps) ==
  /\ Begin(p)
  /\ IF ~validateTitle(title)
       THEN /\ proc' = [proc EXCEPT ![p] = Idle]
            /\ result' = [result EXCEPT ![p] =
                 Res("addTask", "VALIDATION", 0, NullText, FALSE)]
     ELSE IF getColumn(col)
       THEN /\ proc' = [proc EXCEPT ![p] =
                 [Idle EXCEPT !.pc = "add_pos", !.col = col, !.title = title,
                              !.dependsOn = deps]]
            /\ result' = [result EXCEPT ![p] = NoResult]
       ELSE /\ proc' = [proc EXCEPT ![p] = Idle]
            /\ result' = [result EXCEPT ![p] =
                 Res("addTask", "VALIDATION", 0, col, FALSE)]
  /\ UNCHANGED <<app, schema, migrated, boards, columns, codec, answer, scoring, tasks, links, audits, nextUlid, forceUsed,
                 assigned>>

\* SELECT COALESCE(MAX(position), -1) ... ; position = max + 1
AddTaskMaxPos(p) ==
  /\ proc[p].pc = "add_pos"
  /\ proc' = [proc EXCEPT ![p].pc = "add_ins",
                          ![p].pos = MaxPosition(proc[p].col) + 1]
  /\ UNCHANGED <<app, schema, migrated, boards, columns, codec, answer, scoring, tasks, links, audits, nextUlid, clock,
                 result, forceUsed, assigned>>

\* INSERT with the board_task_id sub-select evaluated inside the statement
AddTaskInsert(p) ==
  /\ proc[p].pc = "add_ins"
  /\ nextUlid <= MaxTasks
  /\ LET row == NewTask(nextUlid, NextBoardTaskId, proc[p].title, proc[p].col,
                        proc[p].pos, proc[p].dependsOn)
     IN /\ InsertTask(row)
        /\ assigned' = assigned \cup {<<row.id, row.boardTaskId>>}
        /\ result' = [result EXCEPT ![p] =
             Res("addTask", "OK", row.id, row.columnId, FALSE)]
  /\ nextUlid' = nextUlid + 1
  /\ proc' = [proc EXCEPT ![p] = Idle]
  /\ UNCHANGED <<app, schema, migrated, boards, columns, codec, answer, scoring, links, clock, forceUsed>>

\* ------------------------------------------------------------ moveTask
WipMessage(col, count) ==
  [column |-> ColumnName(col), count |-> count, limit |-> WipLimit(col)]

\* getTask: missing => NOT_FOUND "Task 'id' not found";
\* getColumn: unknown => VALIDATION "Column 'col' does not exist"
MoveTaskStart(p, id, col, force) ==
  /\ Begin(p)
  /\ forceUsed' = (forceUsed \/ force)
  /\ IF getTask(id) = NoTask
       THEN /\ proc' = [proc EXCEPT ![p] = Idle]
            /\ result' = [result EXCEPT ![p] =
                 Res("moveTask", "NOT_FOUND", id, NullText, FALSE)]
       ELSE IF ~getColumn(col)
       THEN /\ proc' = [proc EXCEPT ![p] = Idle]
            /\ result' = [result EXCEPT ![p] =
                 Res("moveTask", "VALIDATION", 0, col, FALSE)]
       ELSE /\ proc' = [proc EXCEPT ![p] =
                 [Idle EXCEPT !.pc = "move_wip", !.id = id, !.col = col,
                              !.force = force, !.task = getTask(id)]]
            /\ result' = [result EXCEPT ![p] = NoResult]
  /\ UNCHANGED <<app, schema, migrated, boards, columns, codec, answer, scoring, tasks, links, audits, nextUlid, assigned>>

\* mutant: the limit test is off by one (count > wipLimit)
WipRejects_gt(col, force, count) ==
  WipLimit(col) # 0 /\ ~force /\ count > WipLimit(col)

\* if (column.wipLimit && !options?.force) count >= wipLimit => VALIDATION
WipRejects(col, force, count) ==
  WipLimit(col) # 0 /\ ~force /\ count >= WipLimit(col)

MoveTaskWip(p) ==
  /\ proc[p].pc = "move_wip"
  /\ LET count == getTaskCountInColumn(proc[p].col)
     IN IF WipRejects(proc[p].col, proc[p].force, count)
          THEN /\ proc' = [proc EXCEPT ![p] = Idle]
               /\ result' = [result EXCEPT ![p] =
                    [Res("moveTask", "VALIDATION", proc[p].id, proc[p].col,
                         proc[p].force)
                       EXCEPT !.count = count, !.limit = WipLimit(proc[p].col)]]
          ELSE /\ proc' = [proc EXCEPT ![p].pc = "move_pos"]
               /\ UNCHANGED result
  /\ UNCHANGED <<app, schema, migrated, boards, columns, codec, answer, scoring, tasks, links, audits, nextUlid, clock,
                 forceUsed, assigned>>

\* now = new Date(); SELECT COALESCE(MAX(position), -1) ... ; newPosition
MoveTaskMaxPos(p) ==
  /\ proc[p].pc = "move_pos"
  /\ proc' = [proc EXCEPT ![p].pc = "move_upd",
                          ![p].now = clock,
                          ![p].pos = MaxPosition(proc[p].col) + 1]
  /\ UNCHANGED <<app, schema, migrated, boards, columns, codec, answer, scoring, tasks, links, audits, nextUlid, clock,
                 result, forceUsed, assigned>>

\* completedAt: isTerminal ? now : task.completedAt
MoveCompletedAt(col, now, task) ==
  IF IsTerminal(col) THEN now ELSE task.completedAt

\* startedAt: columnId === "in_progress" && !task.startedAt ? now : task.startedAt
MoveStartedAt(col, now, task) ==
  IF col = "in_progress" /\ task.startedAt = NullTime THEN now ELSE task.startedAt

\* version: task.version + 1
MoveVersion(task) == task.version + 1

\* mutant: the UPDATE also stamps updatedBy, as updateTask does
MoveRow_stampUser(cur, col, pos, now, task) ==
  [cur EXCEPT !.columnId = col, !.position = pos,
              !.version = MoveVersion(task),
              !.completedAt = MoveCompletedAt(col, now, task),
              !.startedAt = MoveStartedAt(col, now, task),
              !.updatedBy = "user"]

\* the row the UPDATE of moveTask writes: the SET columns over the current row
MoveRow(cur, col, pos, now, task) ==
  [cur EXCEPT !.columnId = col, !.position = pos,
              !.version = MoveVersion(task),
              !.completedAt = MoveCompletedAt(col, now, task),
              !.startedAt = MoveStartedAt(col, now, task)]

\* UPDATE tasks SET ... WHERE id = id; return getTask(id)
MoveTaskUpdate(p) ==
  /\ proc[p].pc = "move_upd"
  /\ LET id == proc[p].id
     IN /\ IF id \in Live
             THEN UpdateTask(MoveRow(tasks[id], proc[p].col, proc[p].pos,
                                     proc[p].now, proc[p].task))
             ELSE UNCHANGED <<tasks, audits>>
        /\ result' = [result EXCEPT ![p] =
             Res("moveTask", IF id \in Live THEN "OK" ELSE "NULL", id,
                 proc[p].col, proc[p].force)]
  /\ proc' = [proc EXCEPT ![p] = Idle]
  /\ UNCHANGED <<app, schema, migrated, boards, columns, codec, answer, scoring, links, nextUlid, clock, forceUsed,
                 assigned>>

\* ---------------------------------------------------------- deleteTask
DeleteTaskStart(p, id) ==
  /\ Begin(p)
  /\ IF getTask(id) = NoTask
       THEN /\ proc' = [proc EXCEPT ![p] = Idle]
            /\ result' = [result EXCEPT ![p] =
                 Res("deleteTask", "NOT_FOUND", id, NullText, FALSE)]
       ELSE /\ proc' = [proc EXCEPT ![p] = [Idle EXCEPT !.pc = "del", !.id = id]]
            /\ result' = [result EXCEPT ![p] = NoResult]
  /\ UNCHANGED <<app, schema, migrated, boards, columns, codec, answer, scoring, tasks, links, audits, nextUlid, forceUsed,
                 assigned>>

DeleteTaskRun(p) ==
  /\ proc[p].pc = "del"
  /\ DeleteRow(proc[p].id)
  /\ result' = [result EXCEPT ![p] =
       Res("deleteTask", "OK", proc[p].id, NullText, FALSE)]
  /\ proc' = [proc EXCEPT ![p] = Idle]
  /\ UNCHANGED <<app, schema, migrated, boards, columns, codec, answer, scoring, nextUlid, clock, forceUsed, assigned>>

\* ------------------------------------------ single-statement task updates
\* archiveTask / restoreTask: toggle archived, stamp archivedAt
ArchiveTask(p, id, flag) ==
  /\ Begin(p)
  /\ IF getTask(id) = NoTask
       THEN /\ result' = [result EXCEPT ![p] =
                 Res("archiveTask", "NOT_FOUND", id, NullText, FALSE)]
            /\ UNCHANGED <<tasks, audits>>
       ELSE /\ UpdateTask([tasks[id] EXCEPT !.archived = flag,
                             !.archivedAt = IF flag THEN clock' ELSE NullTime,
                             !.version = @ + 1])
            /\ result' = [result EXCEPT ![p] =
                 Res("archiveTask", "OK", id, NullText, FALSE)]
  /\ UNCHANGED <<app, schema, migrated, boards, columns, codec, answer, scoring, links, nextUlid, proc, forceUsed, assigned>>

\* assign / unassign: set assignedTo and updatedBy
Assign(p, id, agent) ==
  /\ Begin(p)
  /\ IF getTask(id) = NoTask
       THEN /\ result' = [result EXCEPT ![p] =
                 Res("assign", "NOT_FOUND", id, NullText, FALSE)]
            /\ UNCHANGED <<tasks, audits>>
       ELSE /\ UpdateTask([tasks[id] EXCEPT !.assignedTo = agent,
                             !.updatedBy = "user", !.version = @ + 1])
            /\ result' = [result EXCEPT ![p] =
                 Res("assign", "OK", id, NullText, FALSE)]
  /\ UNCHANGED <<app, schema, migrated, boards, columns, codec, answer, scoring, links, nextUlid, proc, forceUsed, assigned>>

\* updateTask(id, {title}): set title and updatedBy
UpdateTitle(p, id, title) ==
  /\ Begin(p)
  /\ IF getTask(id) = NoTask
       THEN /\ result' = [result EXCEPT ![p] =
                 Res("updateTask", "NOT_FOUND", id, NullText, FALSE)]
            /\ UNCHANGED <<tasks, audits>>
       ELSE /\ UpdateTask([tasks[id] EXCEPT !.title = title,
                             !.updatedBy = "user", !.version = @ + 1])
            /\ result' = [result EXCEPT ![p] =
                 Res("updateTask", "OK", id, NullText, FALSE)]
  /\ UNCHANGED <<app, schema, migrated, boards, columns, codec, answer, scoring, links, nextUlid, proc, forceUsed, assigned>>

\* ------------------------------------------------------ cycle detection
\* elements of a sequence
Range(seq) == {seq[i] : i \in 1..Len(seq)}

\* task.dependsOn of every id; getTask(id) = null has no dependencies
DependsOnMap == [t \in TaskIds |-> IF t \in Live THEN tasks[t].dependsOn ELSE << >>]

\* dfs(currentId) of wouldCreateCycle: visited and path are the closure's
\* variables, returned together with the boolean; expanded lists the ids
\* the search went into (visited.add, getTask), in the order it did
RECURSIVE Dfs(_, _, _, _, _, _)
RECURSIVE DfsEach(_, _, _, _, _, _, _)
\* mutant: a task without dependencies is not kept in visited
Dfs_forgetLeaf(currentId, taskId, deps, visited, path, expanded) ==
  IF currentId = taskId
    THEN [found |-> TRUE, visited |-> visited, path |-> Append(path, currentId),
          expanded |-> expanded]
  ELSE IF currentId \in visited
    THEN [found |-> FALSE, visited |-> visited, path |-> path,
          expanded |-> expanded]
  ELSE IF Len(deps[currentId]) = 0
    THEN [found |-> FALSE, visited |-> visited, path |-> path,
          expanded |-> Append(expanded, currentId)]
  ELSE DfsEach(deps[currentId], 1, taskId, deps, visited \cup {currentId},
               Append(path, currentId), Append(expanded, currentId))

Dfs(currentId, taskId, deps, visited, path, expanded) ==
  IF currentId = taskId
    THEN [found |-> TRUE, visited |-> visited, path |-> Append(path, currentId),
          expanded |-> expanded]
  ELSE IF currentId \in visited
    THEN [found |-> FALSE, visited |-> visited, path |-> path,
          expanded |-> expanded]
  ELSE IF Len(deps[currentId]) = 0
    THEN [found |-> FALSE, visited |-> visited \cup {currentId}, path |-> path,
          expanded |-> Append(expanded, currentId)]
  ELSE DfsEach(deps[currentId], 1, taskId, deps, visited \cup {currentId},
               Append(path, currentId), Append(expanded, currentId))

\* for (const depId of task.dependsOn) if (await dfs(depId)) return true;
\* path.pop(); return false
DfsEach(ds, i, taskId, deps, visited, path, expanded) ==
  IF i > Len(ds)
    THEN [found |-> FALSE, visited |-> visited,
          path |-> SubSeq(path, 1, Len(path) - 1), expanded |-> expanded]
    ELSE LET r == Dfs(ds[i], taskId, deps, visited, path, expanded)
         IN IF r.found THEN r
                       ELSE DfsEach(ds, i + 1, taskId, deps, r.visited, r.path,
                                    r.expanded)

NoCycle == [hasCycle |-> FALSE, cyclePath |-> << >>]

\* mutant: only a direct back edge is looked for, the graph is not walked
wouldCreateCycle_direct(taskId, dependsOnId, deps) ==
  IF taskId = dependsOnId
    THEN [hasCycle |-> TRUE, cyclePath |-> <<taskId, taskId>>]
  ELSE IF taskId \in Range(deps[dependsOnId])
    THEN [hasCycle |-> TRUE, cyclePath |-> <<taskId, dependsOnId, taskId>>]
  ELSE NoCycle

\* DependencyService.wouldCreateCycle(taskId, dependsOnId)
wouldCreateCycle(taskId, dependsOnId, deps) ==
  IF taskId = dependsOnId
    THEN [hasCycle |-> TRUE, cyclePath |-> <<taskId, taskId>>,
          expanded |-> << >>]
    ELSE LET r == Dfs(dependsOnId, taskId, deps, {}, << >>, << >>)
         IN IF r.found
              THEN [hasCycle |-> TRUE, cyclePath |-> <<taskId>> \o r.path,
                    expanded |-> r.expanded]
              ELSE [hasCycle |-> FALSE, cyclePath |-> << >>,
                    expanded |-> r.expanded]

\* one call of wouldCreateCycle on the stored graph; the outcome is kept
CycleCheck(taskId, dependsOnId) ==
  /\ result[1] = NoResult
  /\ LET r == wouldCreateCycle(taskId, dependsOnId, DependsOnMap)
     IN result' = [result EXCEPT ![1] =
          [Res("wouldCreateCycle", IF r.hasCycle THEN "CYCLE" ELSE "OK",
               taskId, NullText, FALSE)
             EXCEPT !.to = dependsOnId, !.path = r.cyclePath]]
  /\ UNCHANGED <<app, schema, migrated, boards, columns, codec, answer, scoring, tasks, links, audits, nextUlid, clock, proc,
                 forceUsed, assigned>>

\* -------------------------------------------------------- addDependency
\* getTask twice => NOT_FOUND; dependsOn.includes => DUPLICATE; cycle => CYCLE
AddDependencyStart(p, taskId, dependsOnId) ==
  /\ Begin(p)
  /\ LET task == getTask(taskId)
         fail(code) ==
           /\ proc' = [proc EXCEPT ![p] = Idle]
           /\ result' = [result EXCEPT ![p] =
                Res("addDependency", code, taskId, NullText, FALSE)]
     IN IF task = NoTask \/ getTask(dependsOnId) = NoTask
          THEN fail("NOT_FOUND")
        ELSE IF dependsOnId \in Range(task.dependsOn)
          THEN fail("DUPLICATE")
        ELSE IF wouldCreateCycle(taskId, dependsOnId, DependsOnMap).hasCycle
          THEN fail("CYCLE")
        ELSE /\ proc' = [proc EXCEPT ![p] =
                  [Idle EXCEPT !.pc = "dep_upd", !.id = taskId,
                               !.to = dependsOnId, !.task = task]]
             /\ result' = [result EXCEPT ![p] = NoResult]
  /\ UNCHANGED <<app, schema, migrated, boards, columns, codec, answer, scoring, tasks, links, audits, nextUlid, forceUsed,
                 assigned>>

\* updateTask(taskId, { dependsOn: [...task.dependsOn, dependsOnId] })
AddDependencyUpdate(p) ==
  /\ proc[p].pc = "dep_upd"
  /\ LET id == proc[p].id
     IN /\ IF id \in Live
             THEN UpdateTask([tasks[id] EXCEPT
                    !.dependsOn = Append(proc[p].task.dependsOn, proc[p].to),
                    !.version = @ + 1])
             ELSE UNCHANGED <<tasks, audits>>
        /\ result' = [result EXCEPT ![p] =
             Res("addDependency", IF id \in Live THEN "OK" ELSE "NOT_FOUND",
                 id, NullText, FALSE)]
  /\ proc' = [proc EXCEPT ![p] = Idle]
  /\ UNCHANGED <<app, schema, migrated, boards, columns, codec, answer, scoring, links, nextUlid, clock, forceUsed,
                 assigned>>

\* ----------------------------------------------------------- LinkService
LinkTypes == {"blocks", "blocked_by", "related"}

Link(from, to, type) == [from |-> from, to |-> to, type |-> type]

\* the mirror type created for blocks / blocked_by
InverseType(type) == IF type = "blocks" THEN "blocked_by" ELSE "blocks"

\* a set of task ids as a list in ascending order
RECURSIVE Ascending(_)
Ascending(S) ==
  IF S = {} THEN << >>
  ELSE LET m == CHOOSE x \in S : \A y \in S : x <= y
       IN <<m>> \o Ascending(S \ {m})

\* the tasks each task is blocked by, read from the link table
BlockedByMap ==
  [t \in TaskIds |->
     Ascending({l.to : l \in {k \in links : k.from = t /\ k.type = "blocked_by"}})]

\* a list back to front (path.reverse())
Reverse(seq) == [i \in 1..Len(seq) |-> seq[Len(seq) + 1 - i]]

\* the parent map of findCyclePath; 0 is an id without an entry
NoParent == [x \in TaskIds |-> 0]

\* while (parent.has(node)) { node = parent.get(node); path.push(node);
\*   if (node === taskId && path.length > 1) break; }
RECURSIVE ReconstructPath(_, _, _, _)
ReconstructPath(node, taskId, parent, path) ==
  IF parent[node] = 0
    THEN path
    ELSE LET up == parent[node]
         IN IF up = taskId
              THEN Append(path, up)
              ELSE ReconstructPath(up, taskId, parent, Append(path, up))

\* while (stack.length > 0) of findCyclePath: pop, return the path when
\* taskId is met, skip a visited id, else push the unvisited dependencies
\* and note their parent
RECURSIVE FindCyclePathLoop(_, _, _, _, _)
FindCyclePathLoop(stack, visited, parent, taskId, deps) ==
  IF Len(stack) = 0
    THEN NoCycle
    ELSE LET current == stack[Len(stack)]
             rest    == SubSeq(stack, 1, Len(stack) - 1)
         IN IF current = taskId
              THEN [hasCycle |-> TRUE,
                    cyclePath |-> Reverse(ReconstructPath(current, taskId, parent,
                                                          <<current>>))]
            ELSE IF current \in visited
              THEN FindCyclePathLoop(rest, visited, parent, taskId, deps)
            ELSE LET seen  == visited \cup {current}
                     fresh == SelectSeq(deps[current], LAMBDA d : d \notin seen)
                 IN FindCyclePathLoop(
                      rest \o fresh, seen,
                      [x \in TaskIds |-> IF x \in Range(fresh) THEN current
                                                                ELSE parent[x]],
                      taskId, deps)

\* mutant: the reconstructed path is returned as built, not reversed
findCyclePath_unreversed(taskId, dependsOnId, deps) ==
  IF taskId = dependsOnId
    THEN [hasCycle |-> TRUE, cyclePath |-> <<taskId, taskId>>]
    ELSE LET r == FindCyclePathLoop(<<dependsOnId>>, {},
                                    [NoParent EXCEPT ![dependsOnId] = taskId],
                                    taskId, deps)
         IN [r EXCEPT !.cyclePath = Reverse(@)]

\* findCyclePath(taskId, dependsOnId, getDependencies); null is NoCycle
findCyclePath(taskId, dependsOnId, deps) ==
  IF taskId = dependsOnId
    THEN [hasCycle |-> TRUE, cyclePath |-> <<taskId, taskId>>]
    ELSE FindCyclePathLoop(<<dependsOnId>>, {},
                           [NoParent EXCEPT ![dependsOnId] = taskId],
                           taskId, deps)

\* checkForCycle: blocks(from, to) means to is blocked by from
checkForCycle(from, to, type) ==
  LET wouldBlock == IF type = "blocks" THEN [taskId |-> to, byId |-> from]
                                       ELSE [taskId |-> from, byId |-> to]
  IN findCyclePath(wouldBlock.taskId, wouldBlock.byId, BlockedByMap).hasCycle

\* validateTaskExists twice; checkForCycle unless the link is 'related'
CreateLinkStart(p, from, to, type) ==
  /\ Begin(p)
  /\ LET fail(code) ==
           /\ proc' = [proc EXCEPT ![p] = Idle]
           /\ result' = [result EXCEPT ![p] =
                Res("createLink", code, from, NullText, FALSE)]
     IN IF from \notin Live \/ to \notin Live
          THEN fail("NOT_FOUND")
        ELSE IF type # "related" /\ checkForCycle(from, to, type)
          THEN fail("CYCLE")
        ELSE /\ proc' = [proc EXCEPT ![p] =
                  [Idle EXCEPT !.pc = "link_ins", !.id = from, !.to = to,
                               !.linkType = type]]
             /\ result' = [result EXCEPT ![p] = NoResult]
  /\ UNCHANGED <<app, schema, migrated, boards, columns, codec, answer, scoring, tasks, links, audits, nextUlid, forceUsed,
                 assigned>>

\* task_links: UNIQUE(from, to, type) and both endpoints reference tasks
InsertViolates(l) == l \in links \/ l.from \notin Live \/ l.to \notin Live

\* db.insert(taskLinks).values(input).returning()
CreateLinkInsert(p) ==
  /\ proc[p].pc = "link_ins"
  /\ LET l == Link(proc[p].id, proc[p].to, proc[p].linkType)
     IN IF InsertViolates(l)
          THEN /\ UNCHANGED links
               /\ proc' = [proc EXCEPT ![p] = Idle]
               /\ result' = [result EXCEPT ![p] =
                    Res("createLink", "CONSTRAINT", l.from, NullText, FALSE)]
        ELSE IF l.type = "related"
          THEN /\ links' = links \cup {l}
               /\ proc' = [proc EXCEPT ![p] = Idle]
               /\ result' = [result EXCEPT ![p] =
                    Res("createLink", "OK", l.from, NullText, FALSE)]
        ELSE /\ links' = links \cup {l}
             /\ proc' = [proc EXCEPT ![p].pc = "link_inv"]
             /\ UNCHANGED result
  /\ UNCHANGED <<app, schema, migrated, boards, columns, codec, answer, scoring, tasks, audits, nextUlid, clock, forceUsed,
                 assigned>>

\* the inverse insert, onConflictDoNothing
CreateLinkInverse(p) ==
  /\ proc[p].pc = "link_inv"
  /\ LET l == Link(proc[p].to, proc[p].id, InverseType(proc[p].linkType))
     IN IF l.from \notin Live \/ l.to \notin Live
          THEN /\ UNCHANGED links
               /\ result' = [result EXCEPT ![p] =
                    Res("createLink", "CONSTRAINT", l.to, NullText, FALSE)]
          ELSE /\ links' = links \cup {l}
               /\ result' = [result EXCEPT ![p] =
                    Res("createLink", "OK", l.to, NullText, FALSE)]
  /\ proc' = [proc EXCEPT ![p] = Idle]
  /\ UNCHANGED <<app, schema, migrated, boards, columns, codec, answer, scoring, tasks, audits, nextUlid, clock, forceUsed,
                 assigned>>

\* removeLink, first statement: delete (from, to) of the given type, or of
\* every type when linkType is undefined
RemoveLinkStart(p, from, to, type) ==
  /\ Begin(p)
  /\ links' = {l \in links :
                 ~(l.from = from /\ l.to = to /\ (type = NullText \/ l.type = type))}
  /\ proc' = [proc EXCEPT ![p] =
       [Idle EXCEPT !.pc = "unlink_inv", !.id = from, !.to = to]]
  /\ result' = [result EXCEPT ![p] = NoResult]
  /\ UNCHANGED <<app, schema, migrated, boards, columns, codec, answer, scoring, tasks, audits, nextUlid, forceUsed, assigned>>

\* removeLink, second statement: delete every link (to, from)
RemoveLinkInverse(p) ==
  /\ proc[p].pc = "unlink_inv"
  /\ links' = {l \in links : ~(l.from = proc[p].to /\ l.to = proc[p].id)}
  /\ result' = [result EXCEPT ![p] =
       Res("removeLink", "OK", proc[p].id, NullText, FALSE)]
  /\ proc' = [proc EXCEPT ![p] = Idle]
  /\ UNCHANGED <<app, schema, migrated, boards, columns, codec, answer, scoring, tasks, audits, nextUlid, clock, forceUsed,
                 assigned>>

NextAdd ==
  \/ \E p \in Procs, t \in Titles, c \in AddColumns : AddTaskStart(p, t, c, << >>)
  \/ \E p \in Procs : AddTaskMaxPos(p)
  \/ \E p \in Procs : AddTaskInsert(p)

NextMove ==
  \/ \E p \in Procs, id \in TaskIds, c \in MoveColumns, f \in BOOLEAN :
       MoveTaskStart(p, id, c, f)
  \/ \E p \in Procs : MoveTaskWip(p)
  \/ \E p \in Procs : MoveTaskMaxPos(p)
  \/ \E p \in Procs : MoveTaskUpdate(p)

NextDelete ==
  \/ \E p \in Procs, id \in TaskIds : DeleteTaskStart(p, id)
  \/ \E p \in Procs : DeleteTaskRun(p)

NextEdit ==
  \/ \E p \in Procs, id \in TaskIds, f \in BOOLEAN : ArchiveTask(p, id, f)
  \/ \E p \in Procs, id \in TaskIds, a \in Agents \cup {NullText} : Assign(p, id, a)
  \/ \E p \in Procs, id \in TaskIds, t \in NewTitles : UpdateTitle(p, id, t)

\* ----------------------------------------------------------- runMigrations
\* mutant: the query fails and the catch branch answers with the empty set
getAppliedMigrations_none == {}

\* SELECT tag FROM __drizzle_migrations
getAppliedMigrations == migrated

\* createMigrationsTable; getAppliedMigrations; toApply = the journal
\* migrations whose tag is not recorded
MigrateStart(p) ==
  /\ proc[p].pc = "idle"
  /\ clock < MaxOps
  /\ clock' = clock + 1
  /\ LET toApply == SelectSeq(Journal, LAMBDA tag : tag \notin getAppliedMigrations)
     IN IF toApply = << >>
          THEN /\ proc' = [proc EXCEPT ![p] = Idle]
               /\ result' = [result EXCEPT ![p] =
                    Res("runMigrations", "OK", 0, NullText, FALSE)]
          ELSE /\ proc' = [proc EXCEPT ![p] =
                    [Idle EXCEPT !.pc = "mig_stmt", !.toApply = toApply, !.pos = 1]]
               /\ result' = [result EXCEPT ![p] = NoResult]
  /\ UNCHANGED <<app, schema, migrated, boards, columns, codec, answer, scoring, tasks, links, audits,
                 nextUlid, forceUsed, assigned>>

\* await db.$runRaw(stmt): the scripts' statements (ALTER TABLE ADD COLUMN,
\* CREATE TABLE / INDEX / TRIGGER without IF NOT EXISTS) fail when their
\* effect is already there, and the error leaves runMigrations
MigrateStatement(p) ==
  /\ proc[p].pc = "mig_stmt"
  /\ LET tag == Head(proc[p].toApply)
         stmt == <<tag, proc[p].pos>>
     IN IF stmt \in schema
          THEN /\ UNCHANGED schema
               /\ proc' = [proc EXCEPT ![p] = Idle]
               /\ result' = [result EXCEPT ![p] =
                    Res("runMigrations", "SQL_FAILED", 0, NullText, FALSE)]
          ELSE /\ schema' = schema \cup {stmt}
               /\ proc' = [proc EXCEPT ![p].pc =
                      IF proc[p].pos = StatementCount(tag) THEN "mig_rec" ELSE "mig_stmt",
                                       ![p].pos = @ + 1]
               /\ UNCHANGED result
  /\ UNCHANGED <<app, migrated, boards, columns, codec, answer, scoring, tasks, links, audits, nextUlid,
                 clock, forceUsed, assigned>>

\* recordMigration(db, tag): INSERT into __drizzle_migrations, tag UNIQUE;
\* newlyApplied.push(tag); next migration or return { applied }
MigrateRecord(p) ==
  /\ proc[p].pc = "mig_rec"
  /\ LET tag == Head(proc[p].toApply)
         rest == Tail(proc[p].toApply)
         applied == Append(proc[p].applied, tag)
     IN IF tag \in migrated
          THEN /\ UNCHANGED migrated
               /\ proc' = [proc EXCEPT ![p] = Idle]
               /\ result' = [result EXCEPT ![p] =
                    Res("runMigrations", "SQL_FAILED", 0, NullText, FALSE)]
        ELSE IF rest = << >>
          THEN /\ migrated' = migrated \cup {tag}
               /\ proc' = [proc EXCEPT ![p] = Idle]
               /\ result' = [result EXCEPT ![p] =
                    [Res("runMigrations", "OK", 0, NullText, FALSE)
                       EXCEPT !.path = applied]]
        ELSE /\ migrated' = migrated \cup {tag}
             /\ proc' = [proc EXCEPT ![p].pc = "mig_stmt", ![p].pos = 1,
                                     ![p].toApply = rest, ![p].applied = applied]
             /\ UNCHANGED result
  /\ UNCHANGED <<app, schema, boards, columns, codec, answer, scoring, tasks, links, audits, nextUlid,
                 clock, forceUsed, assigned>>

\* the process stops between two awaited statements of runMigrations
MigrateCrash(p) ==
  /\ proc[p].pc \in {"mig_stmt", "mig_rec"}
  /\ proc' = [proc EXCEPT ![p] = Idle]
  /\ result' = [result EXCEPT ![p] =
       Res("runMigrations", "STOPPED", 0, NullText, FALSE)]
  /\ UNCHANGED <<app, schema, migrated, boards, columns, codec, answer, scoring, tasks, links, audits,
                 nextUlid, clock, forceUsed, assigned>>

\* a database file before any migration ran
InitMigrate ==
  /\ schema = {}
  /\ migrated = {}
  /\ boards = {}
  /\ columns = {}
  /\ tasks = [t \in {} |-> NoTask]
  /\ links = {}
  /\ audits = << >>
  /\ nextUlid = 1
  /\ clock = 1
  /\ proc = [p \in Procs |-> Idle]
  /\ result = [p \in Procs |-> NoResult]
  /\ forceUsed = FALSE
  /\ assigned = {}
  /\ codec = NoCodec
  /\ answer = NoAnswer
  /\ app = NewApp
  /\ scoring = NewScoringService

NextMigrate ==
  \/ \E p \in Procs : MigrateStart(p)
  \/ \E p \in Procs : MigrateStatement(p)
  \/ \E p \in Procs : MigrateRecord(p)
  \/ \E p \in Procs : MigrateCrash(p)

SpecMigrate == InitMigrate /\ [][NextMigrate]_vars

\* runMigrations is called while no other run is under way
MigrateStartAlone(p) ==
  /\ \A q \in Procs : proc[q].pc = "idle"
  /\ MigrateStart(p)

\* runs that follow one another, by any process, any of them stopped midway
NextRerun ==
  \/ \E p \in Procs : MigrateStartAlone(p)
  \/ \E p \in Procs : MigrateStatement(p)
  \/ \E p \in Procs : MigrateRecord(p)
  \/ \E p \in Procs : MigrateCrash(p)

SpecRerun == InitMigrate /\ [][NextRerun]_vars

\* runs of several processes at once, none of them stopped
NextTogether ==
  \/ \E p \in Procs : MigrateStart(p)
  \/ \E p \in Procs : MigrateStatement(p)
  \/ \E p \in Procs : MigrateRecord(p)

SpecTogether == InitMigrate /\ [][NextTogether]_vars

\* ---------------------------------------------------------------- createDb
\* the retry the Store makes when SQLite answers busy or locked
MaxAttempts == 3      \* attempts in total
BaseDelayMs == 25     \* wait before the second attempt

\* what createDb is called with: config (a path, or an object with a url),
\* KABAN_DB_DRIVER, KABAN_NO_LIBSQL, the runtime and options.migrate
DbConfigs == {"path", "file-url", "remote-url"}
DbDrivers == {NullText, "libsql"}

\* the adapter createDb imports, or "throw" for the KabanError it raises
\* itself
ChooseAdapter(config, driver, noLibsql, isBun) ==
  LET preferBun   == isBun /\ driver # "libsql"
      forceLibsql == driver = "libsql"
  IN IF noLibsql /\ forceLibsql THEN "throw"
     ELSE IF config = "path"
       THEN IF forceLibsql THEN (IF noLibsql THEN "throw" ELSE "libsql")
            ELSE IF preferBun THEN "bun"
            ELSE IF noLibsql THEN "bun"
            ELSE "libsql"
     ELSE IF forceLibsql THEN (IF noLibsql THEN "throw" ELSE "libsql")
     ELSE IF preferBun /\ config = "file-url" THEN "bun"
     ELSE IF noLibsql THEN "bun"
     ELSE "libsql"

\* a createDb call: who runs it, where it stands, options.migrate, the statement it last
\* retried with the attempts made and the waits between them, and its end
DbCall(p, stage, adapter, code) ==
  [op |-> "createDb", p |-> p, stage |-> stage, adapter |-> adapter,
   migrate |-> FALSE, at |-> << >>, attempts |-> 1, delays |-> << >>, exhausted |-> FALSE,
   code |-> code]

\* createDb is called: the environment is read and the adapter chosen, or
\* the KabanError of a disabled driver leaves through the catch block
CreateDbOpen(p, config, driver, noLibsql, isBun, migrate) ==
  /\ proc[p].pc = "idle"
  /\ clock < MaxOps
  /\ answer.op = "none" \/ (answer.op = "createDb" /\ answer.stage = "done")
  /\ LET adapter == ChooseAdapter(config, driver, noLibsql, isBun)
     IN IF adapter = "throw"
          THEN /\ answer' = DbCall(p, "done", adapter, "GENERAL_ERROR")
               /\ result' = [result EXCEPT ![p] =
                    Res("createDb", "GENERAL_ERROR", 0, NullText, FALSE)]
          ELSE /\ answer' = [DbCall(p, "adapter", adapter, "none")
                               EXCEPT !.migrate = migrate]
               /\ result' = [result EXCEPT ![p] = NoResult]
  /\ UNCHANGED <<app, schema, migrated, boards, columns, codec, scoring, tasks, links, audits,
                 nextUlid, clock, proc, forceUsed, assigned>>

\* db = await create...Db(config): the connection is there (opened), or the
\* adapter's error is wrapped by the catch block; without options.migrate
\* the db is returned
CreateDbAdapter(p, opened) ==
  /\ answer.op = "createDb" /\ answer.p = p /\ answer.stage = "adapter"
  /\ LET migrate == answer.migrate
         end(code) ==
           /\ answer' = DbCall(p, "done", answer.adapter, code)
           /\ result' = [result EXCEPT ![p] =
                Res("createDb", code, 0, NullText, FALSE)]
     IN IF ~opened
          THEN end("GENERAL_ERROR")
        ELSE IF ~migrate
          THEN end("OK")
        ELSE /\ answer' = DbCall(p, "migrate", answer.adapter, "none")
             /\ UNCHANGED result
  /\ UNCHANGED <<app, schema, migrated, boards, columns, codec, scoring, tasks, links, audits,
                 nextUlid, clock, proc, forceUsed, assigned>>

\* await runMigrations(db) is entered
CreateDbMigrate(p) ==
  /\ answer.op = "createDb" /\ answer.p = p /\ answer.stage = "migrate"
  /\ result[p] = NoResult
  /\ MigrateStart(p)

\* the statement or the record runMigrations is about to run
CurrentStatement(p) == <<Head(proc[p].toApply), proc[p].pos, proc[p].pc>>

\* db.$runRaw meets busy or locked: it waits and tries again, the wait
\* doubling from BaseDelayMs, and after MaxAttempts attempts it throws
\* BUSY_AFTER_RETRY, which leaves runMigrations
RunRawBusy(p) ==
  /\ answer.op = "createDb" /\ answer.p = p /\ answer.stage = "migrate"
  /\ proc[p].pc \in {"mig_stmt", "mig_rec"}
  /\ LET cur == CurrentStatement(p)
         n   == IF answer.at = cur THEN answer.attempts ELSE 1
         old == IF answer.at = cur THEN answer.delays ELSE << >>
     IN IF n < MaxAttempts
          THEN /\ answer' = [answer EXCEPT !.at = cur, !.attempts = n + 1,
                               !.delays = Append(old, BaseDelayMs * 2 ^ (n - 1))]
               /\ UNCHANGED <<proc, result>>
          ELSE /\ answer' = [answer EXCEPT !.at = cur, !.attempts = n,
                               !.delays = old, !.exhausted = TRUE]
               /\ proc' = [proc EXCEPT ![p] = Idle]
               /\ result' = [result EXCEPT ![p] =
                    Res("runMigrations", "BUSY_AFTER_RETRY", 0, NullText, FALSE)]
  /\ UNCHANGED <<app, schema, migrated, boards, columns, codec, scoring, tasks, links, audits,
                 nextUlid, clock, forceUsed, assigned>>

\* mutant: the catch block wraps every error, a KabanError included
CreateDbReturn_wrapAll(p) ==
  /\ answer.op = "createDb" /\ answer.p = p /\ answer.stage = "migrate"
  /\ proc[p].pc = "idle"
  /\ result[p].op = "runMigrations"
  /\ LET code == IF result[p].code = "OK" THEN "OK" ELSE "GENERAL_ERROR"
     IN /\ answer' = [answer EXCEPT !.stage = "done", !.code = code]
        /\ result' = [result EXCEPT ![p] =
             Res("createDb", code, 0, NullText, FALSE)]
  /\ UNCHANGED <<app, schema, migrated, boards, columns, codec, scoring, tasks, links, audits,
                 nextUlid, clock, proc, forceUsed, assigned>>

\* runMigrations is back: return db, or catch (error): a KabanError, which
\* is what $runRaw throws, is thrown on as it is
CreateDbReturn(p) ==
  /\ answer.op = "createDb" /\ answer.p = p /\ answer.stage = "migrate"
  /\ proc[p].pc = "idle"
  /\ result[p].op = "runMigrations"
  /\ LET code == result[p].code
     IN /\ answer' = [answer EXCEPT !.stage = "done", !.code = code]
        /\ result' = [result EXCEPT ![p] =
             Res("createDb", code, 0, NullText, FALSE)]
  /\ UNCHANGED <<app, schema, migrated, boards, columns, codec, scoring, tasks, links, audits,
                 nextUlid, clock, proc, forceUsed, assigned>>

NextOpen ==
  \/ \E p \in Procs, config \in DbConfigs, driver \in DbDrivers,
        noLibsql \in BOOLEAN, isBun \in BOOLEAN, migrate \in BOOLEAN :
          CreateDbOpen(p, config, driver, noLibsql, isBun, migrate)
  \/ \E p \in Procs, opened \in BOOLEAN : CreateDbAdapter(p, opened)
  \/ \E p \in Procs : CreateDbMigrate(p)
  \/ \E p \in Procs : MigrateStatement(p)
  \/ \E p \in Procs : MigrateRecord(p)
  \/ \E p \in Procs : RunRawBusy(p)
  \/ \E p \in Procs : CreateDbReturn(p)

SpecOpen == InitMigrate /\ [][NextOpen]_vars

\* ------------------------------------------------------- import command
\* titles of the task lines of an imported Markdown file; "- <!-- id:x -->"
\* parses to the empty title
ImportTitles == {"T1", ""}
ImportFiles ==
  UNION {[1..n -> ImportTitles] : n \in 1..(MaxTasks - 1)}

\* parseMarkdown succeeded; every task goes to column "todo"
ImportStart(p, file) ==
  /\ Begin(p)
  /\ proc' = [proc EXCEPT ![p] =
       [Idle EXCEPT !.pc = "imp_add", !.items = file, !.col = "todo"]]
  /\ result' = [result EXCEPT ![p] = NoResult]
  /\ UNCHANGED <<app, schema, migrated, boards, columns, codec, answer, scoring, tasks, links, audits, nextUlid, forceUsed,
                 assigned>>

\* for (const task of column.tasks) taskService.addTask(...): validateTitle
\* and getColumn; a throw leaves the loop for the catch of the command
ImportAddTask(p) ==
  /\ proc[p].pc = "imp_add"
  /\ IF proc[p].items = << >>
       THEN /\ proc' = [proc EXCEPT ![p] = Idle]
            /\ result' = [result EXCEPT ![p] =
                 [Res("import", "OK", 0, NullText, FALSE)
                    EXCEPT !.count = Len(proc[p].createdTasks)]]
     ELSE IF ~validateTitle(Head(proc[p].items)) \/ ~getColumn(proc[p].col)
       THEN /\ proc' = [proc EXCEPT ![p] = Idle]
            /\ result' = [result EXCEPT ![p] =
                 [Res("import", "VALIDATION", 0, NullText, FALSE)
                    EXCEPT !.path = proc[p].createdTasks]]
       ELSE /\ proc' = [proc EXCEPT ![p].pc = "imp_ins",
                                    ![p].title = Head(proc[p].items),
                                    ![p].pos = MaxPosition(proc[p].col) + 1]
            /\ UNCHANGED result
  /\ UNCHANGED <<app, schema, migrated, boards, columns, codec, answer, scoring, tasks, links, audits, nextUlid, clock,
                 forceUsed, assigned>>

\* the INSERT of addTask; createdTasks.push(created)
ImportInsert(p) ==
  /\ proc[p].pc = "imp_ins"
  /\ nextUlid <= MaxTasks
  /\ LET row == NewTask(nextUlid, NextBoardTaskId, proc[p].title, proc[p].col,
                        proc[p].pos, << >>)
     IN /\ InsertTask(row)
        /\ assigned' = assigned \cup {<<row.id, row.boardTaskId>>}
        /\ proc' = [proc EXCEPT ![p].pc = "imp_add",
                                ![p].items = Tail(proc[p].items),
                                ![p].createdTasks =
                                  Append(proc[p].createdTasks, row.id)]
  /\ nextUlid' = nextUlid + 1
  /\ UNCHANGED <<app, schema, migrated, boards, columns, codec, answer, scoring, links, clock, result, forceUsed>>

NextImport ==
  \/ \E p \in Procs, file \in ImportFiles : ImportStart(p, file)
  \/ \E p \in Procs : ImportAddTask(p)
  \/ \E p \in Procs : ImportInsert(p)

\* the whole engine, from an empty database
Next == InitializeBoard \/ NextAdd \/ NextMove \/ NextDelete \/ NextEdit

Spec == Init /\ [][Next]_vars

\* the task service of src alone: addTask, moveTask, deleteTask
NextTask == InitializeBoard \/ NextAdd \/ NextMove \/ NextDelete

SpecTask == Init /\ [][NextTask]_vars

\* ------------------------------------------------- populated databases
\* the table after addTask ran once per entry of cols (no interleaving):
\* task i sits in cols[i] at the next free position and carries btids[i]
SeedRow(i, cols, btids) ==
  NewTask(i, btids[i], "T1", cols[i],
          Cardinality({j \in 1..(i - 1) : cols[j] = cols[i]}), << >>)

SeedAudits(cols, btids) ==
  [i \in 1..Len(cols) |->
     [AuditTaskInsert(SeedRow(i, cols, btids))[1] EXCEPT !.id = i]]

Seeded(cols, btids) ==
  /\ schema = AllStatements
  /\ migrated = AllTags
  /\ boards = {"board"}
  /\ columns = ColumnIds
  /\ tasks = [i \in 1..Len(cols) |-> SeedRow(i, cols, btids)]
  /\ links = {}
  /\ audits = SeedAudits(cols, btids)
  /\ nextUlid = Len(cols) + 1
  /\ clock = 1
  /\ proc = [p \in Procs |-> Idle]
  /\ result = [p \in Procs |-> NoResult]
  /\ forceUsed = FALSE
  /\ assigned = {}
  /\ codec = NoCodec
  /\ answer = NoAnswer
  /\ app = NewApp
  /\ scoring = NewScoringService

\* a board whose review column is exactly at its WIP limit, one more task
\* waiting in todo
InitWip ==
  LET n == WipLimit("review") + 1
  IN Seeded([i \in 1..n |-> IF i <= WipLimit("review") THEN "review" ELSE "todo"],
            [i \in 1..n |-> i])

\* moves of a task of the full column and of the task outside it, into the
\* limited column and out of it
NextWip ==
  \/ \E p \in Procs, id \in {1, WipLimit("review") + 1},
        c \in MoveColumns \ {"nope"}, f \in BOOLEAN :
       MoveTaskStart(p, id, c, f)
  \/ \E p \in Procs : MoveTaskWip(p)
  \/ \E p \in Procs : MoveTaskMaxPos(p)
  \/ \E p \in Procs : MoveTaskUpdate(p)

SpecWip == InitWip /\ [][NextWip]_vars

\* a board holding up to MaxSeed tasks whose boardTaskIds are any ids up to
\* MaxSeed + 1 (tasks with other ids were deleted), about to receive inserts
InitInsert ==
  \E k \in 0..MaxSeed :
    \E btids \in [1..k -> 1..(MaxSeed + 1)] :
      /\ \A i \in 1..k : \A j \in 1..k : i < j => btids[i] < btids[j]
      /\ Seeded([i \in 1..k |-> "todo"], btids)

SpecInsert == InitInsert /\ [][NextAdd]_vars

\* calls of the task service with every kind of argument, valid or not,
\* on a board that holds one task; the calls name that task or the task
\* the next addTask creates
AnyTitles == Titles \cup {""}

InitCalls == Seeded(<<"todo">>, <<1>>)

NextCalls ==
  \/ \E p \in Procs, t \in AnyTitles, c \in AddColumns : AddTaskStart(p, t, c, << >>)
  \/ \E p \in Procs : AddTaskMaxPos(p)
  \/ \E p \in Procs : AddTaskInsert(p)
  \/ \E p \in Procs, id \in 1..2, c \in MoveColumns, f \in BOOLEAN :
       MoveTaskStart(p, id, c, f)
  \/ \E p \in Procs : MoveTaskWip(p)
  \/ \E p \in Procs : MoveTaskMaxPos(p)
  \/ \E p \in Procs : MoveTaskUpdate(p)
  \/ \E p \in Procs, id \in 1..2 : DeleteTaskStart(p, id)
  \/ \E p \in Procs : DeleteTaskRun(p)

SpecCalls == InitCalls /\ [][NextCalls]_vars

\* an empty board about to receive imports
InitImport == Seeded(<< >>, << >>)

SpecImport == InitImport /\ [][NextImport]_vars

\* --------------------------------------------- dependency and link edits
DepLists == {<< >>, <<1>>}                         \* addTask dependsOn

NextDependency ==
  \/ \E p \in Procs, t \in Titles, d \in DepLists : AddTaskStart(p, t, "todo", d)
  \/ \E p \in Procs : AddTaskMaxPos(p)
  \/ \E p \in Procs : AddTaskInsert(p)
  \/ \E p \in Procs, a \in TaskIds, b \in TaskIds : AddDependencyStart(p, a, b)
  \/ \E p \in Procs : AddDependencyUpdate(p)

NextLink ==
  \/ \E p \in Procs, a \in TaskIds, b \in TaskIds, t \in LinkTypes :
       CreateLinkStart(p, a, b, t)
  \/ \E p \in Procs : CreateLinkInsert(p)
  \/ \E p \in Procs : CreateLinkInverse(p)
  \/ \E p \in Procs, a \in TaskIds, b \in TaskIds, t \in LinkTypes \cup {NullText} :
       RemoveLinkStart(p, a, b, t)
  \/ \E p \in Procs : RemoveLinkInverse(p)

\* a board holding all but one of the tasks, in todo, without dependencies
InitLinks ==
  Seeded([i \in 1..(MaxTasks - 1) |-> "todo"], [i \in 1..(MaxTasks - 1) |-> i])

NextLinks == NextDependency \/ NextLink \/ NextDelete

SpecLinks == InitLinks /\ [][NextLinks]_vars

\* two tasks and writers that ask for dependency edges between them, as
\* blocked_by links or as dependsOn entries
InitRace == Seeded(<<"todo", "todo">>, <<1, 2>>)

NextRace ==
  \/ \E p \in Procs, a \in 1..2, b \in 1..2 : CreateLinkStart(p, a, b, "blocked_by")
  \/ \E p \in Procs : CreateLinkInsert(p)
  \/ \E p \in Procs : CreateLinkInverse(p)
  \/ \E p \in Procs, a \in 1..2, b \in 1..2 : AddDependencyStart(p, a, b)
  \/ \E p \in Procs : AddDependencyUpdate(p)

SpecRace == InitRace /\ [][NextRace]_vars

\* --------------------------------------------------------- Markdown text
\* A text is a sequence of pieces; a piece is a run of characters the codec
\* treats as a unit: a word, the backslash, the comment brackets, the blank.
Word      == "x"
Backslash == "\\"
Open      == "<!--"
Close     == "-->"
Blank     == " "
IdKey     == "id:"
Newline   == "\n"

RECURSIVE Flatten(_)
Flatten(texts) ==
  IF texts = << >> THEN << >> ELSE Head(texts) \o Flatten(Tail(texts))

\* text.replace(/\\/g, "\\\\").replace(/\n/g, " ").replace(/<!--/g, "\\<!--")
escapeMarkdown(text) ==
  LET doubled == Flatten([i \in 1..Len(text) |->
                   IF text[i] = Backslash THEN <<Backslash, Backslash>>
                                          ELSE <<text[i]>>])
      spaced  == [i \in 1..Len(doubled) |->
                   IF doubled[i] = Newline THEN Blank ELSE doubled[i]]
  IN Flatten([i \in 1..Len(spaced) |->
       IF spaced[i] = Open THEN <<Backslash, Open>> ELSE <<spaced[i]>>])

\* text.replace(pattern, by) for a pattern of two pieces, all matches from
\* the left, matches do not overlap
RECURSIVE ReplacePairs(_, _, _, _)
ReplacePairs(text, a, b, by) ==
  IF Len(text) < 2
    THEN text
    ELSE IF text[1] = a /\ text[2] = b
      THEN <<by>> \o ReplacePairs(SubSeq(text, 3, Len(text)), a, b, by)
      ELSE <<text[1]>> \o ReplacePairs(Tail(text), a, b, by)

\* text.replace(/\\<!--/g, "<!--").replace(/\\\\/g, "\\")
unescapeMarkdown(text) ==
  ReplacePairs(ReplacePairs(text, Backslash, Open, Open),
               Backslash, Backslash, Backslash)

\* String.prototype.trim
RECURSIVE TrimStart(_)
TrimStart(text) ==
  IF text # << >> /\ Head(text) = Blank THEN TrimStart(Tail(text)) ELSE text

RECURSIVE TrimEnd(_)
TrimEnd(text) ==
  IF text # << >> /\ text[Len(text)] = Blank
    THEN TrimEnd(SubSeq(text, 1, Len(text) - 1))
    ELSE text

Trim(text) == TrimEnd(TrimStart(text))

\* the number of blanks of text from position i on
RECURSIVE Blanks(_, _)
Blanks(text, i) ==
  IF i <= Len(text) /\ text[i] = Blank THEN 1 + Blanks(text, i + 1) ELSE 0

\* the number of non-blank pieces of text from position i on
RECURSIVE NonBlanks(_, _)
NonBlanks(text, i) ==
  IF i <= Len(text) /\ text[i] # Blank THEN 1 + NonBlanks(text, i + 1) ELSE 0

\* /<!--\s*id:([^\s]+)\s*-->/ tried at position i: the captured group is as
\* long as it can be with the rest still matching; NoMatch when none is
NoMatch == [found |-> FALSE, from |-> 0, to |-> 0, id |-> << >>]

IdMatchAt(text, i) ==
  IF ~(i <= Len(text) /\ text[i] = Open)
    THEN NoMatch
    ELSE LET k == i + 1 + Blanks(text, i + 1)          \* position of id:
         IN IF ~(k <= Len(text) /\ text[k] = IdKey)
              THEN NoMatch
              ELSE LET run  == NonBlanks(text, k + 1)
                       \* group lengths after which \s*--> matches
                       good == {n \in 1..run :
                                  LET e == k + n + 1 + Blanks(text, k + n + 1)
                                  IN e <= Len(text) /\ text[e] = Close}
                   IN IF good = {}
                        THEN NoMatch
                        ELSE LET n == CHOOSE m \in good : \A o \in good : o <= m
                                 e == k + n + 1 + Blanks(text, k + n + 1)
                             IN [found |-> TRUE, from |-> i, to |-> e,
                                 id |-> SubSeq(text, k + 1, k + n)]

\* title.match(...): the leftmost match
IdMatch(text) ==
  LET hits == {i \in 1..Len(text) : IdMatchAt(text, i).found}
  IN IF hits = {}
       THEN NoMatch
       ELSE IdMatchAt(text, CHOOSE i \in hits : \A j \in hits : i <= j)

\* the task line of exportBoard
TaskLine(task, options) ==
  IF options.includeMetadata
    THEN <<"- ">> \o escapeMarkdown(task.title)
           \o <<Blank, Open, Blank, IdKey, task.id, Blank, Close>>
    ELSE <<"- ">> \o escapeMarkdown(task.title)

\* parseMarkdown on a line that starts with "- ": title and id
ParseTaskLine(line) ==
  LET rest == Tail(line)
      m    == IdMatch(rest)
  IN IF m.found
       THEN [title |-> unescapeMarkdown(
                         Trim(SubSeq(rest, 1, m.from - 1)
                                \o SubSeq(rest, m.to + 1, Len(rest)))),
             id |-> m.id]
       ELSE [title |-> unescapeMarkdown(rest), id |-> << >>]

\* ------------------------------------------------------ Markdown export
Indent    == "    "
Check     == "(check mark)"   \* the character U+2713
Comma     == ","
WipKey    == "WIP Limit:"
TermKey   == "Terminal column"
AssignKey == "assigned:"
Digits    == {"2", "3"}
Days      == {"2024-06-15"}

\* a Date: the day and the time of day (UTC)
NoDate == [day |-> NullText, time |-> NullText]

\* date.toISOString().split("T")[0]
formatDate(date) == date.day

\* /^(\d{4})-(\d{2})-(\d{2})$/ then new Date(str + "T00:00:00.000Z")
parseISODate(str) ==
  IF Len(str) = 1 /\ str[1] \in Days
    THEN [day |-> str[1], time |-> "00:00"]
    ELSE NoDate

\* labels.join(", ")
RECURSIVE JoinLabels(_)
JoinLabels(labels) ==
  IF labels = << >> THEN << >>
  ELSE IF Len(labels) = 1 THEN labels[1]
  ELSE labels[1] \o <<Comma, Blank>> \o JoinLabels(Tail(labels))

\* str.split(sep) for a separator of one piece
RECURSIVE Split(_, _)
Split(text, sep) ==
  LET at == {i \in 1..Len(text) : text[i] = sep}
  IN IF at = {}
       THEN <<text>>
       ELSE LET i == CHOOSE j \in at : \A k \in at : j <= k
            IN <<SubSeq(text, 1, i - 1)>>
                 \o Split(SubSeq(text, i + 1, Len(text)), sep)

\* [...list].sort((a, b) => a.position - b.position): stable
RECURSIVE SortByPosition(_)
SortByPosition(list) ==
  IF list = << >>
    THEN << >>
    ELSE LET least == CHOOSE i \in 1..Len(list) :
                        \A j \in 1..Len(list) :
                          \/ list[i].position < list[j].position
                          \/ list[i].position = list[j].position /\ i <= j
         IN <<list[least]>>
              \o SortByPosition(SubSeq(list, 1, least - 1)
                                  \o SubSeq(list, least + 1, Len(list)))

\* TaskLines with the check mark on every due-date line
TaskLines_markAll(task, options) ==
  IF ~options.includeArchived /\ task.archived
    THEN << >>
    ELSE <<TaskLine(task, options)>>
      \o (IF task.dueDate # NoDate
            THEN << <<Indent, "@ ", formatDate(task.dueDate)>>
                      \o <<Blank, Check>> >>
            ELSE << >>)
      \o (IF task.labels # << >>
            THEN << <<Indent, "# ">> \o JoinLabels(task.labels) >>
            ELSE << >>)
      \o (IF task.assignedTo # << >>
            THEN << <<Indent, "@ ", AssignKey, Blank>> \o task.assignedTo >>
            ELSE << >>)
      \o [i \in 1..Len(task.description) |->
            <<Indent, "> ">> \o escapeMarkdown(task.description[i])]
      \o << << >> >>

\* the lines exportBoard writes for one task
TaskLines(task, options) ==
  IF ~options.includeArchived /\ task.archived
    THEN << >>
    ELSE <<TaskLine(task, options)>>
      \o (IF task.dueDate # NoDate
            THEN << <<Indent, "@ ", formatDate(task.dueDate)>>
                      \o (IF task.completedAt # NullTime
                            THEN <<Blank, Check>> ELSE << >>) >>
            ELSE << >>)
      \o (IF task.labels # << >>
            THEN << <<Indent, "# ">> \o JoinLabels(task.labels) >>
            ELSE << >>)
      \o (IF task.assignedTo # << >>
            THEN << <<Indent, "@ ", AssignKey, Blank>> \o task.assignedTo >>
            ELSE << >>)
      \o [i \in 1..Len(task.description) |->
            <<Indent, "> ">> \o escapeMarkdown(task.description[i])]
      \o << << >> >>

\* the lines exportBoard writes for one column and its tasks
ColumnLines(column, list, options) ==
  << <<"## ">> \o escapeMarkdown(column.name) >>
    \o (IF column.wipLimit # NullText
          THEN << <<Open, Blank, WipKey, Blank, column.wipLimit, Blank, Close>> >>
          ELSE << >>)
    \o (IF column.isTerminal
          THEN << <<Open, Blank, TermKey, Blank, Close>> >>
          ELSE << >>)
    \o << << >> >>
    \o Flatten([i \in 1..Len(list) |->
                  TaskLines(SortByPosition(list)[i], options)])

\* lines.join("\n").trimEnd() + "\n", as the lines split("\n") gives back
RECURSIVE TrimEndLines(_)
TrimEndLines(lines) ==
  IF lines = << >>
    THEN << >>
    ELSE IF TrimEnd(lines[Len(lines)]) = << >>
      THEN TrimEndLines(SubSeq(lines, 1, Len(lines) - 1))
      ELSE SubSeq(lines, 1, Len(lines) - 1) \o <<TrimEnd(lines[Len(lines)])>>

\* exportBoard: the document, line by line. tasksByColumn maps a column id
\* to the list of its tasks.
exportMarkdown(board, cols, tasksByColumn, options) ==
  LET sortedColumns == SortByPosition(cols)
  IN TrimEndLines(
       << <<"# ">> \o escapeMarkdown(board.name), << >> >>
         \o Flatten([i \in 1..Len(sortedColumns) |->
              ColumnLines(sortedColumns[i],
                          IF sortedColumns[i].id \in DOMAIN tasksByColumn
                            THEN tasksByColumn[sortedColumns[i].id] ELSE << >>,
                          options)]))
       \o << << >> >>

\* ------------------------------------------------------- Markdown parse
StartsWith(text, piece) == text # << >> /\ text[1] = piece

Includes(text, piece) == \E i \in 1..Len(text) : text[i] = piece

\* text.replace(piece, ""): the first occurrence only
RemoveFirst(text, piece) ==
  IF Includes(text, piece)
    THEN LET i == CHOOSE j \in 1..Len(text) :
                    text[j] = piece /\ \A k \in 1..(j - 1) : text[k] # piece
         IN SubSeq(text, 1, i - 1) \o SubSeq(text, i + 1, Len(text))
    ELSE text

\* currentColumn and currentTask of parseMarkdown: null or an object
NoParsedColumn == [has |-> FALSE]
NoParsedTask == [has |-> FALSE]

ParsedColumn(name) ==
  [has |-> TRUE, name |-> name, wipLimit |-> NullText, isTerminal |-> FALSE,
   tasks |-> << >>]

ParsedTask(title, id) ==
  [has |-> TRUE, title |-> title, id |-> id, description |-> << >>,
   dueDate |-> NoDate, labels |-> << >>, assignedTo |-> << >>]

\* line.match(/WIP Limit:\s*(\d+|none)/i): the captured group, or NullText
WipMatch(line) ==
  LET hits == {i \in 1..Len(line) :
                 /\ line[i] = WipKey
                 /\ LET k == i + 1 + Blanks(line, i + 1)
                    IN k <= Len(line) /\ line[k] \in Digits \cup {"none"}}
  IN IF hits = {}
       THEN NullText
       ELSE LET i == CHOOSE j \in hits : \A k \in hits : j <= k
            IN line[i + 1 + Blanks(line, i + 1)]

\* content.match(/assigned:\s*(\S+)/): the captured group, or << >>
AssignedMatch(content) ==
  LET hits == {i \in 1..Len(content) :
                 /\ content[i] = AssignKey
                 /\ NonBlanks(content, i + 1 + Blanks(content, i + 1)) > 0}
  IN IF hits = {}
       THEN << >>
       ELSE LET i == CHOOSE j \in hits : \A k \in hits : j <= k
                k == i + 1 + Blanks(content, i + 1)
            IN SubSeq(content, k, k + NonBlanks(content, k) - 1)

\* labelStr.split(",").map((l) => l.trim()).filter(Boolean)
ParseLabels(labelStr) ==
  LET parts == Split(labelStr, Comma)
  IN SelectSeq([i \in 1..Len(parts) |-> Trim(parts[i])],
               LAMBDA l : l # << >>)

\* currentColumn.tasks.push(currentTask) when both are set
PushTask(st) ==
  IF st.task.has /\ st.column.has
    THEN [st EXCEPT !.column.tasks = Append(@, st.task)]
    ELSE st

\* one turn of the loop over the lines of parseMarkdown
ParseLine(st, line, lineNum) ==
  IF StartsWith(line, "# ") THEN
    [st EXCEPT !.boardName = unescapeMarkdown(Trim(Tail(line)))]
  ELSE IF StartsWith(line, "## ") THEN
    LET pushed == PushTask(st)
    IN [pushed EXCEPT
          !.task = IF st.task.has /\ st.column.has THEN NoParsedTask ELSE @,
          !.columns = IF st.column.has THEN Append(@, pushed.column) ELSE @,
          !.column = ParsedColumn(unescapeMarkdown(Trim(Tail(line))))]
  ELSE IF Includes(line, WipKey) /\ st.column.has THEN
    IF WipMatch(line) = NullText
      THEN st
      ELSE [st EXCEPT !.column.wipLimit =
              IF WipMatch(line) = "none" THEN NullText ELSE WipMatch(line)]
  ELSE IF Includes(line, TermKey) /\ st.column.has THEN
    [st EXCEPT !.column.isTerminal = TRUE]
  ELSE IF StartsWith(line, "- ") THEN
    LET parsed == ParseTaskLine(line)
    IN [PushTask(st) EXCEPT !.task = ParsedTask(parsed.title, parsed.id)]
  ELSE IF StartsWith(line, Indent) /\ st.task.has THEN
    LET content == Tail(line)
    IN IF StartsWith(content, "@ ") /\ ~Includes(content, AssignKey) THEN
         LET dueLine == Trim(Tail(content))
             dateStr == Trim(RemoveFirst(dueLine, Check))
         IN IF parseISODate(dateStr) # NoDate
              THEN [st EXCEPT !.task.dueDate = parseISODate(dateStr)]
              ELSE [st EXCEPT !.errors =
                      Append(@, [line |-> lineNum, dateStr |-> dateStr])]
       ELSE IF Includes(content, AssignKey) THEN
         IF AssignedMatch(content) # << >>
           THEN [st EXCEPT !.task.assignedTo = AssignedMatch(content)]
           ELSE st
       ELSE IF StartsWith(content, "# ") THEN
         [st EXCEPT !.task.labels = ParseLabels(Trim(Tail(content)))]
       ELSE IF StartsWith(content, "> ") THEN
         [st EXCEPT !.task.description =
            Append(@, unescapeMarkdown(Tail(content)))]
       ELSE st
  ELSE st

RECURSIVE ParseLines(_, _, _)
ParseLines(st, lines, i) ==
  IF i > Len(lines)
    THEN st
    ELSE ParseLines(ParseLine(st, lines[i], i), lines, i + 1)

\* parseMarkdown: { boardName, columns, errors }
parseMarkdown(lines) ==
  LET start == [boardName |-> <<"Imported Board">>, columns |-> << >>,
                column |-> NoParsedColumn, task |-> NoParsedTask,
                errors |-> << >>]
      done  == PushTask(ParseLines(start, lines, 1))
  IN [boardName |-> done.boardName,
      columns |-> IF done.column.has
                    THEN Append(done.columns, done.column) ELSE done.columns,
      errors |-> done.errors]

\* ------------------------------------------------------- Markdown codec
\* the export command hands a board to exportBoard and writes the document;
\* the import command reads a document and hands it to parseMarkdown
NoParse == [boardName |-> << >>, columns |-> << >>, errors |-> << >>]

CodecGiven(board, cols, tasksByColumn, options) ==
  [stage |-> "given", board |-> board, columns |-> cols,
   tasksByColumn |-> tasksByColumn, options |-> options,
   doc |-> << >>, parsed |-> NoParse]

MarkdownExport ==
  /\ codec.stage = "given"
  /\ codec' = [codec EXCEPT
                 !.stage = "exported",
                 !.doc = exportMarkdown(codec.board, codec.columns,
                                        codec.tasksByColumn, codec.options)]
  /\ UNCHANGED <<app, schema, migrated, boards, columns, tasks, links, audits,
                 nextUlid, clock, proc, result, forceUsed, assigned, answer, scoring>>

MarkdownParse ==
  /\ codec.stage = "exported"
  /\ codec' = [codec EXCEPT !.stage = "parsed",
                            !.parsed = parseMarkdown(codec.doc)]
  /\ UNCHANGED <<app, schema, migrated, boards, columns, tasks, links, audits,
                 nextUlid, clock, proc, result, forceUsed, assigned, answer, scoring>>

NextCodec == MarkdownExport \/ MarkdownParse

\* the database stays as initializeBoard left it while the codec runs
CodecInit(given) ==
  /\ schema = AllStatements
  /\ migrated = AllTags
  /\ boards = {"board"}
  /\ columns = ColumnIds
  /\ tasks = [t \in {} |-> NoTask]
  /\ links = {}
  /\ audits = << >>
  /\ nextUlid = 1
  /\ clock = 0
  /\ proc = [p \in Procs |-> Idle]
  /\ result = [p \in Procs |-> NoResult]
  /\ forceUsed = FALSE
  /\ assigned = {}
  /\ codec = given
  /\ answer = NoAnswer
  /\ app = NewApp
  /\ scoring = NewScoringService

\* a Column and a Task as exportBoard reads them
CodecColumn(id, name, position, wipLimit, isTerminal) ==
  [id |-> id, name |-> name, position |-> position, wipLimit |-> wipLimit,
   isTerminal |-> isTerminal]

CodecTask(id, title) ==
  [id |-> id, title |-> title, position |-> 0, archived |-> FALSE,
   dueDate |-> NoDate, completedAt |-> NullTime, labels |-> << >>,
   assignedTo |-> << >>, description |-> << >>]

WithMetadata == [includeMetadata |-> TRUE, includeArchived |-> FALSE]
Plain        == [includeMetadata |-> FALSE, includeArchived |-> FALSE]

\* titles of up to MaxTitle pieces, trimmed and not empty
TitlePieces == {Word, Backslash, Open, Close, Blank, IdKey}

ValidTitles ==
  {t \in UNION {[1..n -> TitlePieces] : n \in 1..MaxTitle} :
     t[1] # Blank /\ t[Len(t)] # Blank}

\* one task with any valid title, exported with its id
InitTitle ==
  \E title \in ValidTitles :
    CodecInit(CodecGiven([name |-> <<"Board">>],
                         <<CodecColumn("todo", <<"Todo">>, 0, NullText, FALSE)>>,
                         [c \in {"todo"} |-> <<CodecTask("id1", title)>>],
                         WithMetadata))

SpecTitle == InitTitle /\ [][NextCodec]_vars

\* a board of two columns with one task in the first; the task's fields and
\* the second column's settings take every combination of the values below
BoardTitles ==
  {<<Word>>, <<Word, Backslash>>, <<"Fix", Blank, WipKey, Blank, "2">>,
   <<TermKey>>}

BoardDueDates == {NoDate, [day |-> "2024-06-15", time |-> "00:00"]}

BoardLabels == {<< >>, << <<"bug">> >>, << <<"bug">>, <<"ui">> >>}

BoardAssignees == {<< >>, <<"bob">>}

BoardDescriptions ==
  {<< >>, << <<Word>> >>, << <<Word>>, <<Word, Blank, Open>> >>,
   << <<"not", Blank, AssignKey, Blank, Word>> >>}

InitBoard ==
  \E title \in BoardTitles, dueDate \in BoardDueDates,
     completedAt \in {NullTime, 1}, labels \in BoardLabels,
     assignedTo \in BoardAssignees, description \in BoardDescriptions,
     wipLimit \in Digits \cup {NullText}, isTerminal \in BOOLEAN,
     options \in {Plain, WithMetadata} :
    CodecInit(CodecGiven(
      [name |-> <<"Board">>],
      <<CodecColumn("done", <<"Done">>, 1, wipLimit, isTerminal),
        CodecColumn("todo", <<"Todo">>, 0, NullText, FALSE)>>,
      [c \in {"todo"} |->
         <<[CodecTask("id1", title) EXCEPT
              !.dueDate = dueDate, !.completedAt = completedAt,
              !.labels = labels, !.assignedTo = assignedTo,
              !.description = description]>>],
      options))

SpecBoard == InitBoard /\ [][NextCodec]_vars

\* --------------------------------------------------------- AuditService
HistoryCap   == 1000    \* Math.min(filter.limit ?? 50, 1000)
DefaultLimit == 50      \* filter.limit ?? 50

\* Math.min
Min(a, b) == IF a < b THEN a ELSE b

\* an optional member of a filter: << >> when not supplied, <<v>> when v is
Some(v) == <<v>>
None    == << >>

\* a row of audits as drizzle reads it for getHistory
HistoryRow(id, timestamp, eventType, objectId, actor) ==
  [id |-> id, timestamp |-> timestamp, eventType |-> eventType,
   objectType |-> "task", objectId |-> objectId, actor |-> actor]

\* and(...conditions): one condition per supplied member of the filter
WhereClause(filter, row) ==
  /\ filter.objectType # None => row.objectType = filter.objectType[1]
  /\ filter.objectId # None => row.objectId = filter.objectId[1]
  /\ filter.eventType # None => row.eventType = filter.eventType[1]
  /\ filter.actor # None => row.actor = filter.actor[1]
  /\ filter.since # None => row.timestamp >= filter.since[1]
  /\ filter.until # None => row.timestamp <= filter.until[1]

\* ORDER BY timestamp DESC. SQL leaves the order of rows with equal
\* timestamps open: ties is the order the engine happens to produce, by
\* ascending or by descending rowid
OrderByTimestampDesc(rows, ties) ==
  SortSeq(rows, LAMBDA a, b :
    \/ a.timestamp > b.timestamp
    \/ /\ a.timestamp = b.timestamp
       /\ IF ties = "asc" THEN a.id < b.id ELSE a.id > b.id)

\* LIMIT limit OFFSET offset
LimitOffset(rows, limit, offset) ==
  SubSeq(rows, offset + 1, Min(Len(rows), offset + limit))

HistoryLimit(filter) ==
  Min(IF filter.limit = None THEN DefaultLimit ELSE filter.limit[1], HistoryCap)

HistoryOffset(filter) == IF filter.offset = None THEN 0 ELSE filter.offset[1]

\* mutant: fetches limit rows and takes a full page as a sign of more
getHistory_fullPage(table, filter, ties) ==
  LET limit   == HistoryLimit(filter)
      offset  == HistoryOffset(filter)
      where   == SelectSeq(table, LAMBDA row : WhereClause(filter, row))
      entries == LimitOffset(OrderByTimestampDesc(where, ties), limit, offset)
  IN [entries |-> entries, hasMore |-> Len(entries) >= limit]

\* the first statement of getHistory and what is made of its rows
getHistory(table, filter, ties) ==
  LET limit   == HistoryLimit(filter)
      offset  == HistoryOffset(filter)
      where   == SelectSeq(table, LAMBDA row : WhereClause(filter, row))
      entries == LimitOffset(OrderByTimestampDesc(where, ties), limit + 1, offset)
      hasMore == Len(entries) > limit
  IN [entries |-> IF hasMore THEN SubSeq(entries, 1, Len(entries) - 1)
                             ELSE entries,
      hasMore |-> hasMore]

\* SELECT ... FROM audits WHERE ... ORDER BY ... LIMIT ... OFFSET ...
GetHistorySelect(filter, ties) ==
  /\ answer.op = "none"
  /\ answer' = [op |-> "getHistory", stage |-> "selected", filter |-> filter,
                entries |-> getHistory(audits, filter, ties).entries,
                hasMore |-> getHistory(audits, filter, ties).hasMore,
                total |-> 0]
  /\ UNCHANGED <<app, schema, migrated, boards, columns, tasks, links, audits,
                 nextUlid, clock, proc, result, forceUsed, assigned, codec, scoring>>

\* SELECT COUNT(*) FROM audits WHERE ... ; the result is returned
GetHistoryCount ==
  /\ answer.op = "getHistory"
  /\ answer.stage = "selected"
  /\ answer' = [answer EXCEPT
                  !.stage = "returned",
                  !.total = Len(SelectSeq(audits,
                              LAMBDA row : WhereClause(answer.filter, row)))]
  /\ UNCHANGED <<app, schema, migrated, boards, columns, tasks, links, audits,
                 nextUlid, clock, proc, result, forceUsed, assigned, codec, scoring>>

\* every member of a filter left out or given one value
AllFilters ==
  [objectType : {None, Some("task")}, objectId : {None, Some(1)},
   eventType : {None, Some("CREATE")}, actor : {None, Some("alice")},
   since : {None, Some(2)}, until : {None, Some(1)},
   limit : {None, Some(0), Some(1), Some(2 * HistoryCap)},
   offset : {None, Some(1)}]

\* the members of a filter that select rows
Supplied(f) ==
  {m \in {"objectType", "objectId", "eventType", "actor", "since", "until"} :
     f[m] # None}

\* the filters asked: up to two selecting members, or the three of the test
\* "combines multiple filters", with any limit and offset
Filters ==
  {f \in AllFilters :
     \/ Cardinality(Supplied(f)) <= 2
     \/ Supplied(f) = {"actor", "eventType", "objectType"}}

\* filters that page only
PageFilters ==
  {f \in Filters : \A m \in DOMAIN f \ {"limit", "offset"} : f[m] = None}

\* the rows the triggers leave: who did what to which task, and when
HistoryEvents ==
  {<<"CREATE", 1, "alice">>, <<"UPDATE", 1, NullText>>, <<"CREATE", 2, NullText>>}

\* tables of up to MaxRows rows, ids in insertion order, time not running
\* backwards
HistoryTables ==
  UNION {{[i \in 1..n |-> HistoryRow(i, ts[i], ev[i][1], ev[i][2], ev[i][3])] :
            ts \in {t \in [1..n -> 1..2] : \A i \in 1..(n - 1) : t[i] <= t[i + 1]},
            ev \in [1..n -> HistoryEvents]} : n \in 0..MaxRows}

\* a table with one row more than the cap: tasks created in one second
FullTable ==
  [i \in 1..(HistoryCap + 1) |-> HistoryRow(i, 1, "CREATE", i, "alice")]

InitHistory ==
  \E table \in HistoryTables \cup {FullTable} :
    /\ schema = AllStatements
    /\ migrated = AllTags
    /\ boards = {"board"}
    /\ columns = ColumnIds
    /\ tasks = [t \in {} |-> NoTask]
    /\ links = {}
    /\ audits = table
    /\ nextUlid = 1
    /\ clock = 2
    /\ proc = [p \in Procs |-> Idle]
    /\ result = [p \in Procs |-> NoResult]
    /\ forceUsed = FALSE
    /\ assigned = {}
    /\ codec = NoCodec
    /\ answer = NoAnswer
    /\ app = NewApp
    /\ scoring = NewScoringService

NextHistory ==
  \/ \E filter \in Filters, ties \in {"asc", "desc"} :
       /\ Len(audits) > MaxRows => filter \in PageFilters
       /\ GetHistorySelect(filter, ties)
  \/ GetHistoryCount

SpecHistory == InitHistory /\ [][NextHistory]_vars

\* -------------------------------------------------------------- scorers
\* Times are counted in days, so that ms / (1000 * 60 * 60 * 24) is exact.
PRIORITY_WEIGHTS ==
  [critical |-> 1000, urgent |-> 500, high |-> 100, medium |-> 50, low |-> 10,
   p0 |-> 1000, p1 |-> 500, p2 |-> 100, p3 |-> 50, p4 |-> 10]

\* String.prototype.toLowerCase on the labels in use
toLowerCase(label) ==
  IF label = "CRITICAL" THEN "critical"
  ELSE IF label = "High" THEN "high"
  ELSE label

\* PRIORITY_WEIGHTS[label.toLowerCase()], undefined read as 0
Weight(label) ==
  IF toLowerCase(label) \in DOMAIN PRIORITY_WEIGHTS
    THEN PRIORITY_WEIGHTS[toLowerCase(label)]
    ELSE 0

\* priorityScorer.score
RECURSIVE priorityScore(_)
priorityScore(labels) ==
  IF labels = << >>
    THEN 0
    ELSE LET rest == priorityScore(Tail(labels))
         IN IF Weight(Head(labels)) > rest THEN Weight(Head(labels)) ELSE rest

\* mutant: the scorer keeps a running count of its calls in the score
fifoScore_counting(task, now) ==
  now - task.createdAt + Cardinality(scoring.evaluations)

\* fifoScorer.score: Date.now() - task.createdAt.getTime(), in days
fifoScore(task, now) == now - task.createdAt

\* Math.abs
Abs(x) == IF x < 0 THEN 0 - x ELSE x

\* dueDateScorer.score
dueDateScore(task, now) ==
  IF task.dueDate = NullTime
    THEN 0
    ELSE LET daysUntilDue == task.dueDate - now
         IN IF daysUntilDue <= 0 THEN 1000 + Abs(daysUntilDue) * 10
            ELSE IF daysUntilDue <= 1 THEN 500
            ELSE IF daysUntilDue <= 7 THEN 100 + (7 - daysUntilDue) * 10
            ELSE IF 50 - daysUntilDue > 0 THEN 50 - daysUntilDue ELSE 0

\* the function handed to createBlockingScorer: async (id) => counts[id] ?? 0
getBlockingCount(id) ==
  IF id = 1 THEN 5 ELSE IF id = 2 THEN 1 ELSE 0

\* the scorer createBlockingScorer returns
blockingScore(task) == getBlockingCount(task.id) * 50

ScorerNames == {"fifo", "priority", "due-date", "blocking"}

\* scorer.score(task) with Date.now() = now
Score(name, task, now) ==
  CASE name = "fifo" -> fifoScore(task, now)
    [] name = "priority" -> priorityScore(task.labels)
    [] name = "due-date" -> dueDateScore(task, now)
    [] name = "blocking" -> blockingScore(task)

\* ------------------------------------------------------- ScoringService
\* breakdown[name] = score: a key keeps its place when written again
SetKey(breakdown, name, score) ==
  IF \E i \in 1..Len(breakdown) : breakdown[i].name = name
    THEN [i \in 1..Len(breakdown) |->
            IF breakdown[i].name = name
              THEN [name |-> name, score |-> score] ELSE breakdown[i]]
    ELSE Append(breakdown, [name |-> name, score |-> score])

\* this.scorers.push(scorer): the array changes in place, so a loop of
\* scoreTask that is still on this array sees the new scorer
AddScorer(name) ==
  /\ scoring.changes < MaxCalls
  /\ scoring' = [scoring EXCEPT
       !.changes = @ + 1,
       !.scorers = Append(@, name),
       !.calls = [s \in Slots |->
                    IF @[s].state = "running" /\ @[s].live
                      THEN [@[s] EXCEPT !.array = Append(@, name)]
                      ELSE @[s]]]
  /\ UNCHANGED <<app, schema, migrated, boards, columns, tasks, links, audits,
                 nextUlid, clock, proc, result, forceUsed, assigned, codec,
                 answer>>

\* this.scorers = this.scorers.filter(...): a new array; loops under way
\* stay on the old one
RemoveScorer(name) ==
  /\ scoring.changes < MaxCalls
  /\ scoring' = [scoring EXCEPT
       !.changes = @ + 1,
       !.scorers = SelectSeq(@, LAMBDA n : n # name),
       !.calls = [s \in Slots |->
                    IF @[s].state = "running"
                      THEN [@[s] EXCEPT !.live = FALSE] ELSE @[s]]]
  /\ UNCHANGED <<app, schema, migrated, boards, columns, tasks, links, audits,
                 nextUlid, clock, proc, result, forceUsed, assigned, codec,
                 answer>>

\* the state of a scoreTask call when it starts
NewCall(task, rank) ==
  [state |-> "running", task |-> task, array |-> scoring.scorers,
   live |-> TRUE, next |-> 1, breakdown |-> << >>, totalScore |-> 0,
   order |-> << >>, rank |-> rank]

\* scoreTask(task) is called; the call takes the first slot not in use
ScoreTaskStart(slot, task) ==
  /\ scoring.calls[slot].state # "running"
  /\ \A s \in Slots : s < slot => scoring.calls[s].state = "running"
  /\ scoring.ranking = << >>
  /\ scoring.started < MaxCalls
  /\ scoring' = [scoring EXCEPT !.calls[slot] = NewCall(task, 0),
                                !.started = @ + 1]
  /\ UNCHANGED <<app, schema, migrated, boards, columns, tasks, links, audits,
                 nextUlid, clock, proc, result, forceUsed, assigned, codec,
                 answer>>

\* one turn of the loop of scoreTask: await scorer.score(task), then
\* breakdown[scorer.name] = score and totalScore += score
ScoreTaskTurn(slot) ==
  LET call == scoring.calls[slot]
  IN /\ call.state = "running"
     /\ call.next <= Len(call.array)
     /\ LET name  == call.array[call.next]
            score == Score(name, call.task, clock)
        IN scoring' = [scoring EXCEPT
             !.calls[slot] = [call EXCEPT
                !.next = @ + 1,
                !.breakdown = SetKey(@, name, score),
                !.totalScore = @ + score,
                !.order = Append(@, name)],
             !.evaluations = @ \cup {[scorer |-> name, task |-> call.task,
                                      now |-> clock, value |-> score]}]
     /\ UNCHANGED <<app, schema, migrated, boards, columns, tasks, links, audits,
                    nextUlid, clock, proc, result, forceUsed, assigned, codec,
                    answer>>

\* the loop is over: return { task, score: totalScore, breakdown }
ScoreTaskReturn(slot) ==
  LET call == scoring.calls[slot]
  IN /\ call.state = "running"
     /\ call.next > Len(call.array)
     /\ scoring' = [scoring EXCEPT !.calls[slot].state = "returned"]
     /\ UNCHANGED <<app, schema, migrated, boards, columns, tasks, links, audits,
                    nextUlid, clock, proc, result, forceUsed, assigned, codec,
                    answer>>

\* scored.sort((a, b) => b.score - a.score): stable
RECURSIVE SortByScore(_)
SortByScore(scored) ==
  IF scored = << >>
    THEN << >>
    ELSE LET best == CHOOSE i \in 1..Len(scored) :
                       \A j \in 1..Len(scored) :
                         \/ scored[i].totalScore > scored[j].totalScore
                         \/ scored[i].totalScore = scored[j].totalScore /\ i <= j
         IN <<scored[best]>>
              \o SortByScore(SubSeq(scored, 1, best - 1)
                               \o SubSeq(scored, best + 1, Len(scored)))

\* rankTasks(list): Promise.all(list.map((task) => this.scoreTask(task)))
\* starts one scoreTask per task
RankTasksStart(list) ==
  /\ \A s \in Slots : scoring.calls[s].state # "running"
  /\ scoring.ranking = << >>
  /\ scoring.started + Len(list) <= MaxCalls
  /\ scoring' = [scoring EXCEPT
       !.calls = [s \in Slots |-> NewCall(list[s], s)],
       !.ranking = list,
       !.started = @ + Len(list)]
  /\ UNCHANGED <<app, schema, migrated, boards, columns, tasks, links, audits,
                 nextUlid, clock, proc, result, forceUsed, assigned, codec,
                 answer>>

\* every promise is settled: sort and return
RankTasksReturn ==
  /\ scoring.ranking # << >>
  /\ \A s \in Slots : scoring.calls[s].state = "returned"
  /\ scoring' = [scoring EXCEPT
       !.ranked = SortByScore([s \in Slots |-> scoring.calls[s]]),
       !.ranking = << >>]
  /\ UNCHANGED <<app, schema, migrated, boards, columns, tasks, links, audits,
                 nextUlid, clock, proc, result, forceUsed, assigned, codec,
                 answer>>

\* a day passes
Tick ==
  /\ clock < MaxDay
  /\ clock' = clock + 1
  /\ UNCHANGED <<app, schema, migrated, boards, columns, tasks, links, audits,
                 nextUlid, proc, result, forceUsed, assigned, codec, answer,
                 scoring>>

\* the system clock is set back by a day (Date.now() is not monotonic)
ClockSetBack ==
  /\ clock > 1
  /\ clock' = clock - 1
  /\ UNCHANGED <<app, schema, migrated, boards, columns, tasks, links, audits,
                 nextUlid, proc, result, forceUsed, assigned, codec, answer,
                 scoring>>

\* the tasks that are scored: created on day 1 or 2, labelled or not, due
\* or not
ScoreTask(id, labels, createdAt, dueDate) ==
  [id |-> id, labels |-> labels, createdAt |-> createdAt, dueDate |-> dueDate]

ScoredTasks ==
  {ScoreTask(1, <<"low", "CRITICAL">>, 1, NullTime),
   ScoreTask(2, << >>, 2, 2),
   ScoreTask(3, <<"p2", "other">>, 1, 9)}

\* a new service on the board as initializeBoard left it; scorers are
\* added and removed and tasks are scored one call after another or at once
InitScoring ==
  /\ schema = AllStatements
  /\ migrated = AllTags
  /\ boards = {"board"}
  /\ columns = ColumnIds
  /\ tasks = [t \in {} |-> NoTask]
  /\ links = {}
  /\ audits = << >>
  /\ nextUlid = 1
  /\ clock = 2
  /\ proc = [p \in Procs |-> Idle]
  /\ result = [p \in Procs |-> NoResult]
  /\ forceUsed = FALSE
  /\ assigned = {}
  /\ codec = NoCodec
  /\ answer = NoAnswer
  /\ app = NewApp
  /\ scoring = NewScoringService

NextScoring ==
  \/ \E name \in ScorerNames : AddScorer(name)
  \/ \E name \in ScorerNames : RemoveScorer(name)
  \/ \E slot \in Slots, task \in ScoredTasks : ScoreTaskStart(slot, task)
  \/ \E slot \in Slots : ScoreTaskTurn(slot)
  \/ \E slot \in Slots : ScoreTaskReturn(slot)

SpecScoring == InitScoring /\ [][NextScoring]_vars

\* a service that holds one scorer, on the day the last task was made; tasks
\* are scored one call after another or at once while the clock moves
InitRank ==
  \E name \in ScorerNames :
    /\ schema = AllStatements
    /\ migrated = AllTags
    /\ boards = {"board"}
    /\ columns = ColumnIds
    /\ tasks = [t \in {} |-> NoTask]
    /\ links = {}
    /\ audits = << >>
    /\ nextUlid = 1
    /\ clock = 2
    /\ proc = [p \in Procs |-> Idle]
    /\ result = [p \in Procs |-> NoResult]
    /\ forceUsed = FALSE
    /\ assigned = {}
    /\ codec = NoCodec
    /\ answer = NoAnswer
    /\ app = NewApp
    /\ scoring = [NewScoringService EXCEPT !.scorers = <<name>>]

NextRank ==
  \/ \E slot \in Slots, task \in ScoredTasks : ScoreTaskStart(slot, task)
  \/ \E slot \in Slots : ScoreTaskTurn(slot)
  \/ \E slot \in Slots : ScoreTaskReturn(slot)
  \/ \E list \in [Slots -> ScoredTasks] : RankTasksStart(list)
  \/ RankTasksReturn
  \/ Tick
  \/ ClockSetBack

SpecRank == InitRank /\ [][NextRank]_vars

\* ------------------------------------------------------------ isBlocked
\* SELECT ... FROM task_links INNER JOIN tasks ON to_task_id = tasks.id
\* WHERE from_task_id = taskId AND link_type = 'blocked_by'
\*   AND tasks.completed_at IS NULL LIMIT 1 ; blockers.length > 0
isBlocked(taskId) ==
  \E l \in links :
    /\ l.to \in Live
    /\ l.from = taskId
    /\ l.type = "blocked_by"
    /\ tasks[l.to].completedAt = NullTime

\* the result keeps the answer in its flag field
IsBlocked(p, taskId) ==
  /\ Begin(p)
  /\ result' = [result EXCEPT ![p] =
       Res("isBlocked", "OK", taskId, NullText, isBlocked(taskId))]
  /\ UNCHANGED <<app, schema, migrated, boards, columns, codec, answer, scoring, tasks, links, audits, nextUlid, proc,
                 forceUsed, assigned>>

\* a board holding two tasks that are linked, completed and archived while
\* isBlocked is asked
InitBlocker == Seeded(<<"todo", "todo">>, <<1, 2>>)

NextBlocker ==
  \/ \E p \in Procs, a \in 1..2, b \in 1..2, t \in LinkTypes :
       CreateLinkStart(p, a, b, t)
  \/ \E p \in Procs : CreateLinkInsert(p)
  \/ \E p \in Procs : CreateLinkInverse(p)
  \/ \E p \in Procs, id \in 1..2 : MoveTaskStart(p, id, "done", FALSE)
  \/ \E p \in Procs : MoveTaskWip(p)
  \/ \E p \in Procs : MoveTaskMaxPos(p)
  \/ \E p \in Procs : MoveTaskUpdate(p)
  \/ \E p \in Procs, id \in 1..2 : ArchiveTask(p, id, TRUE)
  \/ \E p \in Procs, id \in 1..2 : IsBlocked(p, id)

SpecBlocker == InitBlocker /\ [][NextBlocker]_vars

\* ------------------------------------------------------- listing, export
\* ORDER BY column_id: the column ids in text order
ColumnRank(c) ==
  CASE c = "backlog"     -> 0
    [] c = "done"        -> 1
    [] c = "in_progress" -> 2
    [] c = "review"      -> 3
    [] OTHER             -> 4

\* column.position
ColumnPosition(c) ==
  CASE c = "backlog"     -> 0
    [] c = "todo"        -> 1
    [] c = "in_progress" -> 2
    [] c = "review"      -> 3
    [] OTHER             -> 4

\* the ids of S as a list: by rank of the column, then position, then id
RECURSIVE OrderBy(_, _)
OrderBy(S, rank) ==
  IF S = {}
    THEN << >>
    ELSE LET before(a, b) ==
               \/ rank[tasks[a].columnId] < rank[tasks[b].columnId]
               \/ /\ rank[tasks[a].columnId] = rank[tasks[b].columnId]
                  /\ \/ tasks[a].position < tasks[b].position
                     \/ tasks[a].position = tasks[b].position /\ a < b
             first == CHOOSE t \in S : \A u \in S \ {t} : before(t, u)
         IN <<first>> \o OrderBy(S \ {first}, rank)

\* the filter of a plain listTasks() call
NoFilter == [columnId |-> NullText, includeArchived |-> FALSE]

\* listTasks: the conditions are built from columnId, agent and blocked
\* only (the model has no agent or blockedReason column to filter on)
listTasks(filter) ==
  OrderBy({t \in Live : filter.columnId # NullText
                          => tasks[t].columnId = filter.columnId},
          [c \in ColumnIds |-> ColumnRank(c)])

\* exportBoard: the task lines of the document, as the ids they stand for
exportBoard(allTasks, options) ==
  LET kept == {t \in Range(allTasks) :
                 ~(~options.includeArchived /\ tasks[t].archived)}
  IN OrderBy(kept, [c \in ColumnIds |-> ColumnPosition(c)])

\* the export command: listTasks, group by column, exportBoard
Export(archived) ==
  exportBoard(listTasks([NoFilter EXCEPT !.includeArchived = archived]),
              [includeArchived |-> archived])

\* the result keeps the includeArchived flag of the call in its flag field
ListTasks(p, includeArchived) ==
  /\ Begin(p)
  /\ result' = [result EXCEPT ![p] =
       [Res("listTasks", "OK", 0, NullText, includeArchived)
          EXCEPT !.path = listTasks([NoFilter EXCEPT
                                       !.includeArchived = includeArchived])]]
  /\ UNCHANGED <<app, schema, migrated, boards, columns, codec, answer, scoring, tasks, links, audits, nextUlid, proc,
                 forceUsed, assigned>>

ExportCommand(p, archived) ==
  /\ Begin(p)
  /\ result' = [result EXCEPT ![p] =
       [Res("export", "OK", 0, NullText, archived)
          EXCEPT !.path = Export(archived),
                 !.count = Len(listTasks([NoFilter EXCEPT
                                            !.includeArchived = archived]))]]
  /\ UNCHANGED <<app, schema, migrated, boards, columns, codec, answer, scoring, tasks, links, audits, nextUlid, proc,
                 forceUsed, assigned>>

\* a board holding two tasks that are archived, restored, listed, exported
InitArchive == Seeded(<<"todo", "todo">>, <<1, 2>>)

NextArchive ==
  \/ \E p \in Procs, id \in 1..2, f \in BOOLEAN : ArchiveTask(p, id, f)
  \/ \E p \in Procs, a \in BOOLEAN : ListTasks(p, a)
  \/ \E p \in Procs, a \in BOOLEAN : ExportCommand(p, a)

SpecArchive == InitArchive /\ [][NextArchive]_vars

\* ------------------------------------------------ deletes of linked tasks
\* a board holding two tasks; links are created between them and to
\* themselves while the tasks are deleted
InitDelete == Seeded(<<"todo", "todo">>, <<1, 2>>)

NextDeleteLinked ==
  \/ \E p \in Procs, a \in 1..2, b \in 1..2, t \in LinkTypes :
       CreateLinkStart(p, a, b, t)
  \/ \E p \in Procs : CreateLinkInsert(p)
  \/ \E p \in Procs : CreateLinkInverse(p)
  \/ \E p \in Procs, id \in 1..2 : DeleteTaskStart(p, id)
  \/ \E p \in Procs : DeleteTaskRun(p)

SpecDelete == InitDelete /\ [][NextDeleteLinked]_vars

\* ------------------------------------------------ moves through in_progress
StartColumns == {"in_progress", "todo"}            \* moveTask columnId

\* one task waiting in todo
InitStart == Seeded(<<"todo">>, <<1>>)

NextStart ==
  \/ \E p \in Procs, id \in TaskIds, c \in StartColumns, f \in BOOLEAN :
       MoveTaskStart(p, id, c, f)
  \/ \E p \in Procs : MoveTaskWip(p)
  \/ \E p \in Procs : MoveTaskMaxPos(p)
  \/ \E p \in Procs : MoveTaskUpdate(p)

SpecStart == InitStart /\ [][NextStart]_vars

\* ------------------------------------------- moves of tasks with blockers
NextBlocked == NextDependency \/ NextMove

SpecBlocked == InitLinks /\ [][NextBlocked]_vars

\* ------------------------------------------------- stored dependency graphs
\* the lists a dependsOn array can hold: tasks other than t, each once, in
\* ascending or descending order
DependsOnLists(t) ==
  {Ascending(S) : S \in SUBSET (TaskIds \ {t})} \cup
  {[i \in 1..Cardinality(S) |-> Ascending(S)[Cardinality(S) + 1 - i]] :
     S \in SUBSET (TaskIds \ {t})}

\* the lists of every task, and all of them together
ListsOf == [t \in TaskIds |-> DependsOnLists(t)]
AnyList == UNION {ListsOf[t] : t \in TaskIds}

\* a board of n tasks in todo carrying any dependency graph, cycles and
\* entries naming deleted tasks included
InitCycle ==
  \E n \in (MaxTasks - 1)..MaxTasks :
    \E g \in [1..n -> AnyList] :
      /\ \A t \in 1..n : g[t] \in ListsOf[t]
      /\ schema = AllStatements
      /\ migrated = AllTags
      /\ boards = {"board"}
      /\ columns = ColumnIds
      /\ tasks = [t \in 1..n |-> NewTask(t, t, "T1", "todo", t - 1, g[t])]
      /\ links = {}
      /\ audits = [t \in 1..n |->
                     [AuditTaskInsert(NewTask(t, t, "T1", "todo", t - 1, g[t]))[1]
                        EXCEPT !.id = t]]
      /\ nextUlid = n + 1
      /\ clock = 1
      /\ proc = [p \in Procs |-> Idle]
      /\ result = [p \in Procs |-> NoResult]
      /\ forceUsed = FALSE
      /\ assigned = {}
      /\ codec = NoCodec
      /\ answer = NoAnswer
      /\ app = NewApp
      /\ scoring = NewScoringService

NextCycle == \E a \in TaskIds, b \in TaskIds : CycleCheck(a, b)

\* one call of findCyclePath on the stored graph; the outcome is kept
FindCyclePath(taskId, dependsOnId) ==
  /\ result[1] = NoResult
  /\ LET r == findCyclePath(taskId, dependsOnId, DependsOnMap)
     IN result' = [result EXCEPT ![1] =
          [Res("findCyclePath", IF r.hasCycle THEN "CYCLE" ELSE "OK",
               taskId, NullText, FALSE)
             EXCEPT !.to = dependsOnId, !.path = r.cyclePath]]
  /\ UNCHANGED <<app, schema, migrated, boards, columns, codec, answer, scoring, tasks, links, audits, nextUlid, clock, proc,
                 forceUsed, assigned>>

\* the lists addTask stores as they are given: tasks other than t in
\* ascending order, or one task named twice
RepeatLists(t) ==
  {Ascending(S) : S \in SUBSET (TaskIds \ {t})} \cup
  {<<x, x>> : x \in TaskIds \ {t}}

RepeatListsOf == [t \in TaskIds |-> RepeatLists(t)]
AnyRepeatList == UNION {RepeatListsOf[t] : t \in TaskIds}

\* a board of n tasks in todo carrying any such graph
InitDfs ==
  \E n \in (MaxTasks - 1)..MaxTasks :
    \E g \in [1..n -> AnyRepeatList] :
      /\ \A t \in 1..n : g[t] \in RepeatListsOf[t]
      /\ schema = AllStatements
      /\ migrated = AllTags
      /\ boards = {"board"}
      /\ columns = ColumnIds
      /\ tasks = [t \in 1..n |-> NewTask(t, t, "T1", "todo", t - 1, g[t])]
      /\ links = {}
      /\ audits = [t \in 1..n |->
                     [AuditTaskInsert(NewTask(t, t, "T1", "todo", t - 1, g[t]))[1]
                        EXCEPT !.id = t]]
      /\ nextUlid = n + 1
      /\ clock = 1
      /\ proc = [p \in Procs |-> Idle]
      /\ result = [p \in Procs |-> NoResult]
      /\ forceUsed = FALSE
      /\ assigned = {}
      /\ codec = NoCodec
      /\ answer = NoAnswer
      /\ app = NewApp
      /\ scoring = NewScoringService

\* one call of wouldCreateCycle on the stored graph; the outcome and the
\* ids the search went into are kept
CycleCheckLogged(taskId, dependsOnId) ==
  /\ result[1] = NoResult
  /\ LET r == wouldCreateCycle(taskId, dependsOnId, DependsOnMap)
     IN /\ result' = [result EXCEPT ![1] =
             [Res("wouldCreateCycle", IF r.hasCycle THEN "CYCLE" ELSE "OK",
                  taskId, NullText, FALSE)
                EXCEPT !.to = dependsOnId, !.path = r.cyclePath]]
        /\ answer' = [op |-> "wouldCreateCycle", expanded |-> r.expanded]
  /\ UNCHANGED <<app, schema, migrated, boards, columns, codec, scoring, tasks, links, audits, nextUlid, clock, proc,
                 forceUsed, assigned>>

NextDfs == \E a \in TaskIds, b \in TaskIds : CycleCheckLogged(a, b)

SpecDfs == InitDfs /\ [][NextDfs]_vars

NextPath ==
  \/ \E a \in TaskIds, b \in TaskIds : CycleCheck(a, b)
  \/ \E a \in TaskIds, b \in TaskIds : FindCyclePath(a, b)

SpecPath == InitCycle /\ [][NextPath]_vars

SpecCycle == InitCycle /\ [][NextCycle]_vars

\* ===================================================================
\* The TUI: modals and the key dispatcher
\* ===================================================================
\* key.name of the keypresses the terminal sends
Keys == {"q", "escape", "left", "h", "right", "l", "a", "?", "y", "n",
         "return", "x"}

WILDCARD == "*"

\* what the user has typed into the task title input when ENTER arrives
TypedTitles == {"", "T1", "LONG"}

\* the process whose database connection the TUI holds
TuiProc == CHOOSE p \in Procs : \A q \in Procs : p <= q

\* state.columns: the board's columns in the order of their position
StateColumns ==
  [i \in 1..Cardinality(columns) |->
     CHOOSE c \in columns :
       Cardinality({d \in columns : ColumnPosition(d) < ColumnPosition(c)}) = i - 1]

\* closeModal(state): the overlay and the input are removed, no modal is active
closeModal(state) ==
  [state EXCEPT !.activeModal = "none", !.modalOverlay = FALSE,
                !.taskInput = FALSE]

showQuitModal(state) ==
  [state EXCEPT !.modalOverlay = TRUE, !.activeModal = "quit"]

showHelpModal(state) ==
  [state EXCEPT !.modalOverlay = TRUE, !.activeModal = "help"]

\* column = columns[currentColumnIndex]; column.name throws on a missing
\* column before anything is added to the screen or written to the state
showAddTaskModal(state) ==
  IF state.currentColumnIndex + 1 \in DOMAIN StateColumns
    THEN [state EXCEPT !.modalOverlay = TRUE, !.taskInput = TRUE,
                       !.activeModal = "addTask"]
    ELSE state

navigateLeft(state) ==
  [state EXCEPT !.currentColumnIndex =
     IF 0 > state.currentColumnIndex - 1 THEN 0 ELSE state.currentColumnIndex - 1]

navigateRight(state) ==
  [state EXCEPT !.currentColumnIndex =
     Min(Len(StateColumns) - 1, state.currentColumnIndex + 1)]

\* renderer.destroy(); process.exit(0)
quit(state) == [state EXCEPT !.exited = TRUE]

\* the key bindings of a modal: the handler bound to a name, or "undefined"
KeyBindings(modal) ==
  CASE modal = "none" ->
         [k \in {"q", "escape", "left", "h", "right", "l", "a", "?"} |->
            CASE k \in {"q", "escape"} -> "showQuitModal"
              [] k \in {"left", "h"}   -> "navigateLeft"
              [] k \in {"right", "l"}  -> "navigateRight"
              [] k = "a"               -> "showAddTaskModal"
              [] k = "?"               -> "showHelpModal"]
    [] modal = "addTask" -> [k \in {"escape"} |-> "closeModal"]
    [] modal = "help"    -> [k \in {WILDCARD} |-> "closeModal"]
    [] modal = "quit"    ->
         [k \in {"y", "n", "escape"} |->
            IF k = "y" THEN "quit" ELSE "closeModal"]

Binding(bindings, name) ==
  IF name \in DOMAIN bindings THEN bindings[name] ELSE "undefined"

\* mutant: a key the modal does not bind falls through to the bindings of
\* the board
modalBindings_fallThrough(modal, name) ==
  LET bindings == KeyBindings(modal)
      handler  == Binding(bindings, name)
      star     == Binding(bindings, WILDCARD)
  IN IF handler # "undefined" THEN handler
     ELSE IF star # "undefined" THEN star
     ELSE Binding(KeyBindings("none"), name)

\* bindings = modalBindings[state.activeModal];
\* handler = bindings[key.name] ?? bindings[WILDCARD]
modalBindings(modal, name) ==
  LET bindings == KeyBindings(modal)
      handler  == Binding(bindings, name)
  IN IF handler # "undefined" THEN handler ELSE Binding(bindings, WILDCARD)

\* handler?.(state)
Handle(handler, state) ==
  CASE handler = "showQuitModal"    -> showQuitModal(state)
    [] handler = "showHelpModal"    -> showHelpModal(state)
    [] handler = "showAddTaskModal" -> showAddTaskModal(state)
    [] handler = "navigateLeft"     -> navigateLeft(state)
    [] handler = "navigateRight"    -> navigateRight(state)
    [] handler = "closeModal"       -> closeModal(state)
    [] handler = "quit"             -> quit(state)
    [] OTHER                        -> state

\* handleKeypress(state, key)
HandleKeypress(key) ==
  /\ ~app.exited
  /\ app' = Handle(modalBindings(app.activeModal, key), app)
  /\ UNCHANGED <<schema, migrated, boards, columns, codec, answer, scoring,
                 tasks, links, audits, nextUlid, clock, proc, result,
                 forceUsed, assigned>>

\* the ENTER handler of the task input, up to its await
TaskInput(stage, title, col) ==
  [op |-> "taskInput", stage |-> stage, title |-> title, col |-> col]

\* input.on(ENTER): taskTitle = input.value.trim(); an empty title closes
\* the modal at once, any other title goes to taskService.addTask
TaskInputEnter(taskTitle) ==
  /\ ~app.exited
  /\ app.taskInput
  /\ proc[TuiProc].pc = "idle"
  /\ clock < MaxOps
  /\ answer.op = "none" \/ (answer.op = "taskInput" /\ answer.stage = "done")
  /\ LET column == StateColumns[app.currentColumnIndex + 1]
     IN IF taskTitle = ""
          THEN /\ app' = closeModal(app)
               /\ answer' = TaskInput("done", taskTitle, column)
          ELSE /\ answer' = TaskInput("addTask", taskTitle, column)
               /\ UNCHANGED app
  /\ result' = [result EXCEPT ![TuiProc] = NoResult]
  /\ UNCHANGED <<schema, migrated, boards, columns, codec, scoring, tasks,
                 links, audits, nextUlid, clock, proc, forceUsed, assigned>>

\* state.taskService.addTask({ title: taskTitle, columnId: column.id })
TaskInputAddTask ==
  /\ ~app.exited
  /\ answer.op = "taskInput" /\ answer.stage = "addTask"
  /\ result[TuiProc] = NoResult
  /\ AddTaskStart(TuiProc, answer.title, answer.col, << >>)

\* addTask is back: closeModal(state), or the rejection leaves the handler
\* and the modal stays as it is
TaskInputCreated ==
  /\ ~app.exited
  /\ answer.op = "taskInput" /\ answer.stage = "addTask"
  /\ proc[TuiProc].pc = "idle"
  /\ result[TuiProc].op = "addTask"
  /\ app' = IF result[TuiProc].code = "OK" THEN closeModal(app) ELSE app
  /\ answer' = [answer EXCEPT !.stage = "done"]
  /\ UNCHANGED <<schema, migrated, boards, columns, codec, scoring, tasks,
                 links, audits, nextUlid, clock, proc, result, forceUsed,
                 assigned>>

InitTui == Seeded(<<"todo">>, <<1>>)

NextTui ==
  \/ \E key \in Keys : HandleKeypress(key)
  \/ \E taskTitle \in TypedTitles : TaskInputEnter(taskTitle)
  \/ TaskInputAddTask
  \/ AddTaskMaxPos(TuiProc)
  \/ AddTaskInsert(TuiProc)
  \/ TaskInputCreated

SpecTui == InitTui /\ [][NextTui]_vars

\* ===================================================================
\* Properties
\* ===================================================================
AllIdle == \A p \in Procs : proc[p].pc = "idle"

\* number of non-archived tasks in column c
ActiveCount(c) == Cardinality({t \in Live : tasks[t].columnId = c /\ ~tasks[t].archived})

\* C1: for every column with a WIP limit k, as long as no move used
\* force=true, the number of non-archived tasks in the column is at most k.
C1_WipLimitHolds ==
  ~forceUsed => \A c \in columns : WipLimit(c) # 0 => ActiveCount(c) <= WipLimit(c)

\* C3: no two tasks ever carry the same boardTaskId: an id that was assigned
\* once is never assigned to another task, whatever was deleted in between.
C3_BoardTaskIdNeverReused ==
  \A a \in assigned : \A b \in assigned : a[1] # b[1] => a[2] # b[2]

\* highest boardTaskId on the board before the inserts of this behaviour
MaxBefore == Max({tasks[t].boardTaskId : t \in Live \ {a[1] : a \in assigned}}, 0)

MoveCommits(p) ==
  /\ proc[p].pc = "move_upd"
  /\ proc'[p].pc = "idle"
  /\ proc[p].id \in Live

\* C8: every successful update of a task leaves its version strictly greater
\* than it was immediately before, under any interleaving of writers.
C8_VersionStrictlyIncreases ==
  [][\A t \in Live : (t \in DOMAIN tasks' /\ tasks'[t] # tasks[t])
        => tasks'[t].version > tasks[t].version]_vars

\* the audit row of a column change
ColumnChangeRow(old, new) ==
  [AuditRow("UPDATE", old.id, "columnId", old.columnId, new.columnId,
            new.updatedBy, NoJson) EXCEPT !.id = Autoincrement(audits)]

\* C9: a non-forced moveTask into a column that already holds wipLimit tasks
\* fails with VALIDATION and a message naming column and count/limit, leaves
\* tasks and audit log unchanged; the same move with force=true succeeds and
\* produces the audit row for the column change.
C9_WipRejection ==
  [][\A p \in Procs :
       LET c == proc[p].col
           full == WipLimit(c) # 0 /\ ActiveCount(c) >= WipLimit(c)
       IN /\ (proc[p].pc = "move_wip" /\ proc'[p] # proc[p] /\ ~proc[p].force /\ full)
               => /\ proc'[p].pc = "idle"
                  /\ result'[p].op = "moveTask"
                  /\ result'[p].code = "VALIDATION"
                  /\ WipMessage(c, result'[p].count) =
                       [column |-> ColumnName(c),
                        count |-> getTaskCountInColumn(c),
                        limit |-> WipLimit(c)]
                  /\ result'[p].limit = WipLimit(c)
                  /\ tasks' = tasks
                  /\ audits' = audits
          /\ (MoveCommits(p) /\ proc[p].force /\ full)
               => /\ result'[p].code = "OK"
                  /\ tasks'[proc[p].id].columnId = c
                  /\ tasks[proc[p].id].columnId # c
                       => audits' = Append(audits,
                            ColumnChangeRow(tasks[proc[p].id], tasks'[proc[p].id]))
     ]_vars

\* one move was refused at the limit, the same move forced went through
C9_Witness ==
  \E p \in Procs : \E q \in Procs :
    /\ result[p].op = "moveTask" /\ result[p].code = "VALIDATION"
    /\ result[p].limit > 0 /\ result[p].count = result[p].limit
    /\ result[q].op = "moveTask" /\ result[q].code = "OK" /\ result[q].force
    /\ result[q].id = result[p].id /\ result[q].col = result[p].col
    /\ ActiveCount(result[q].col) > WipLimit(result[q].col)
    /\ \E i \in 1..Len(audits) :
         /\ audits[i].fieldName = "columnId"
         /\ audits[i].objectId = result[q].id
         /\ audits[i].newValue = result[q].col

\* C10: moveTask sets completedAt iff the target column is terminal and
\* completedAt was null before the move; every other move leaves it as it was.
C10_CompletedAtSetOnce ==
  [][\A p \in Procs : MoveCommits(p) =>
        LET old == tasks[proc[p].id]
            new == tasks'[proc[p].id]
        IN IF IsTerminal(proc[p].col) /\ old.completedAt = NullTime
             THEN new.completedAt # NullTime
             ELSE new.completedAt = old.completedAt]_vars

\* ---------------------------------------------------------------- audit
\* the task fields the update trigger compares
TaskWhitelist == {"title", "columnId", "assignedTo", "description", "archived", "labels"}

\* (task, field) pairs whose value differs across the step
ChangedTaskFields ==
  {x \in (Live \cap DOMAIN tasks') \X TaskWhitelist :
     tasks[x[1]][x[2]] # tasks'[x[1]][x[2]]}

\* rows created or deleted by the step in a table given as a set of keys
RowsInOut(before, after) == Cardinality(after \ before) + Cardinality(before \ after)

\* C6: every step that mutates rows adds exactly one audit row per CREATE
\* and per DELETE on the tables task, column and board, and for an UPDATE one
\* audit row per whitelisted field whose value changed (NULL to a value
\* counts); an update changing no whitelisted field adds none.
C6_AuditRowCounts ==
  [][Len(audits') - Len(audits) =
         RowsInOut(boards, boards') + RowsInOut(columns, columns')
       + RowsInOut(Live, DOMAIN tasks') + Cardinality(ChangedTaskFields)]_vars

\* the call of p returns in this step
Finishes(p) == proc[p].pc # "idle" /\ proc'[p].pc = "idle"

\* tasks created, deleted or changed in a whitelisted field by the step
AuditedTasks ==
  (DOMAIN tasks' \ Live) \cup (Live \ DOMAIN tasks')
    \cup {x[1] : x \in ChangedTaskFields}

\* the audit rows the step appended
NewAuditRows == {audits'[i] : i \in (Len(audits) + 1)..Len(audits')}

\* C7: a call that fails leaves no row change and no audit row behind, and a
\* row change and its audit rows become visible in the same step: only the
\* final statement of a call that succeeds writes, the audit log only grows,
\* and the tasks named by the new audit rows are exactly the tasks the step
\* created, deleted or changed in an audited field.
C7_RowAndAuditTogether ==
  [][/\ \A p \in Procs : (Finishes(p) /\ result'[p].code # "OK")
            => (tasks' = tasks /\ audits' = audits /\ links' = links)
     /\ clock' # clock => (tasks' = tasks /\ audits' = audits /\ links' = links)
     /\ (tasks' # tasks \/ audits' # audits)
            => \E p \in Procs : Finishes(p) /\ result'[p].code = "OK"
     /\ Len(audits') >= Len(audits)
     /\ SubSeq(audits', 1, Len(audits)) = audits
     /\ {r.objectId : r \in NewAuditRows} = AuditedTasks
    ]_vars

\* a move was refused, another move went through, and the log holds the
\* rows of the successful calls only
C7_Witness ==
  /\ AllIdle
  /\ \E p \in Procs : \E q \in Procs :
       /\ result[p].op = "moveTask" /\ result[p].code \in {"VALIDATION", "NOT_FOUND"}
       /\ result[q].op = "moveTask" /\ result[q].code = "OK"
       /\ result[q].id \in Live
       /\ Len(audits) = 2
       /\ audits[1].eventType = "CREATE" /\ audits[1].objectId = result[q].id
       /\ audits[2].eventType = "UPDATE" /\ audits[2].objectId = result[q].id
       /\ audits[2].fieldName = "columnId"
       /\ audits[2].newValue = tasks[result[q].id].columnId

\* ----------------------------------------------------------- dependencies
\* A is blocked by B, as stored in the link table
LinkEdges == {<<l.from, l.to>> : l \in {k \in links : k.type = "blocked_by"}}

\* A is blocked by B, as stored in the dependsOn arrays
DependsOnEdges ==
  {e \in TaskIds \X TaskIds : e[1] \in Live /\ e[2] \in Range(tasks[e[1]].dependsOn)}

\* the nodes reachable from S over the edges E
RECURSIVE Reachable(_, _)
Reachable(S, E) ==
  LET more == S \cup {e[2] : e \in {x \in E : x[1] \in S}}
  IN IF more = S THEN S ELSE Reachable(more, E)

Acyclic(E) == \A e \in E : e[1] \notin Reachable({e[2]}, E)

\* C2: after every committed dependency edit (addDependency, createLink of
\* type blocks or blocked_by, addTask with dependsOn) no task reaches itself
\* by following blocked_by edges, in the link table or in the dependsOn arrays.
C2_BlockedByAcyclic == Acyclic(LinkEdges) /\ Acyclic(DependsOnEdges)

\* C5: once every createLink, removeLink and deleteTask call has returned,
\* the link table holds blocks(A,B) if and only if it holds blocked_by(B,A).
C5_MirrorPairs ==
  AllIdle =>
    \A l \in links : l.type # "related" => Link(l.to, l.from, InverseType(l.type)) \in links

\* C11: startedAt is null from creation until the first successful move into
\* in_progress, that move sets it, and no later move changes it.
C11_StartedAtSetOnce ==
  [][\A t \in DOMAIN tasks' :
       IF t \notin Live
         THEN tasks'[t].startedAt = NullTime
         ELSE /\ tasks[t].startedAt # NullTime
                   => tasks'[t].startedAt = tasks[t].startedAt
              /\ tasks[t].startedAt = NullTime
                   => (tasks'[t].startedAt # NullTime
                         <=> \E p \in Procs : /\ MoveCommits(p)
                                              /\ proc[p].id = t
                                              /\ proc[p].col = "in_progress")
    ]_vars

\* the tasks t waits for: its dependsOn entries and its blocked_by links
BlockersOf(t) ==
  Range(tasks[t].dependsOn) \cup
  {l.to : l \in {k \in links : k.from = t /\ k.type = "blocked_by"}}

\* blockers of t that are neither completed nor archived
UnresolvedBlockers(t) ==
  {b \in BlockersOf(t) \cap Live :
     tasks[b].completedAt = NullTime /\ ~tasks[b].archived}

\* a column that is neither terminal nor the backlog
IsWorkColumn(c) == c \in columns /\ ~IsTerminal(c) /\ c # "backlog"

\* C12: moveTask into a column that is neither terminal nor the backlog is
\* refused with BLOCKED while the task has a blocker that is neither completed
\* nor archived, so no such move commits; moves into the backlog or a
\* terminal column are never refused with BLOCKED.
C12_BlockedMoveRefused ==
  [][\A p \in Procs :
       /\ (MoveCommits(p) /\ IsWorkColumn(proc[p].col))
            => UnresolvedBlockers(proc[p].id) = {}
       /\ (result'[p].op = "moveTask" /\ result'[p].code = "BLOCKED")
            => IsWorkColumn(result'[p].col)
    ]_vars

StatementsOf(tag) == {<<tag, n>> : n \in 1..StatementCount(tag)}

\* no process is inside runMigrations
NoMigrationRunning == \A p \in Procs : proc[p].pc \notin {"mig_stmt", "mig_rec"}

\* C14: a migration is applied atomically together with its record: whenever
\* no run is in progress (a run that failed or stopped midway included), a
\* tag is recorded iff all statements of its script have taken effect, and
\* when it is not recorded none of them has.
C14_MigrationAtomic ==
  NoMigrationRunning =>
    \A tag \in AllTags :
      /\ tag \in migrated <=> StatementsOf(tag) \subseteq schema
      /\ tag \notin migrated => StatementsOf(tag) \cap schema = {}

\* C15: runMigrations on a database on which it has already completed applies
\* no migration and leaves the schema and the migration records unchanged.
C15_RerunIsNoOp ==
  [][\A p \in Procs :
       (migrated = AllTags /\ AllStatements \subseteq schema
          /\ proc[p].pc = "idle" /\ clock' # clock
          /\ (proc'[p] # proc[p] \/ result'[p] # result[p]))
        => /\ result'[p].op = "runMigrations"
           /\ result'[p].code = "OK"
           /\ result'[p].path = << >>
           /\ proc'[p].pc = "idle"
           /\ schema' = schema
           /\ migrated' = migrated
    ]_vars

\* a run completed and applied the whole journal, and a later run on the
\* same database returned without applying anything
C15_Witness ==
  \E p \in Procs : \E q \in Procs :
    /\ result[p].op = "runMigrations" /\ result[p].code = "OK"
    /\ result[p].path = Journal
    /\ result[q].op = "runMigrations" /\ result[q].code = "OK"
    /\ result[q].path = << >>
    /\ migrated = AllTags /\ schema = AllStatements

\* C16: a multi-step operation is all-or-nothing. For the Markdown import:
\* when the import stops with an error at one of its tasks, no task it
\* created before and no audit row of such a task remains in the database.
C16_ImportAllOrNothing ==
  [][\A p \in Procs :
       (proc[p].pc = "imp_add" /\ proc'[p].pc = "idle"
          /\ result'[p].op = "import" /\ result'[p].code = "VALIDATION")
        => \A id \in Range(proc[p].createdTasks) :
             /\ id \notin DOMAIN tasks'
             /\ \A i \in 1..Len(audits') : audits'[i].objectId # id ]_vars

\* the tables of the database
Tables == <<schema, migrated, boards, columns, tasks, links, audits>>

FailureCodes == {"VALIDATION", "NOT_FOUND"}

\* process p makes this step and its call ends in it with a failure
FailsNow(p) ==
  /\ proc'[p].pc = "idle"
  /\ result'[p].op \in {"addTask", "moveTask", "deleteTask"}
  /\ result'[p].code \in FailureCodes
  /\ proc[p].pc # "idle" \/ clock' # clock
  /\ \A q \in Procs \ {p} : proc'[q] = proc[q] /\ result'[q] = result[q]

\* C17: a call of addTask, moveTask or deleteTask that fails with a
\* validation or not-found error leaves every table, the audit log included,
\* as it was: the step in which the call fails changes no table, and every
\* step that changes a table ends a call that succeeds.
C17_FailedCallChangesNothing ==
  [][/\ \A p \in Procs : FailsNow(p) => Tables' = Tables
     /\ Tables' # Tables =>
           \E p \in Procs : Finishes(p) /\ result'[p].code = "OK" ]_vars

\* every kind of failure has happened on a board that holds a task
C17_Witness ==
  /\ Live # {}
  /\ \E p \in Procs : result[p].op = "addTask" /\ result[p].code = "VALIDATION"
  /\ \E p \in Procs : result[p].op \in {"moveTask", "deleteTask"}
                        /\ result[p].code \in FailureCodes

\* the rows of the audit table before and after the step
AuditsBefore == {audits[i] : i \in 1..Len(audits)}
AuditsAfter == {audits'[i] : i \in 1..Len(audits')}

\* C18: every audit row a committing statement writes has an id strictly
\* greater than the id of every audit row committed before it, whichever
\* process wrote the earlier rows; the rows committed before keep their
\* ids, and the rows written together have ids of their own.
C18_AuditIdsIncrease ==
  [][/\ AuditsBefore \subseteq AuditsAfter
     /\ \A new \in AuditsAfter \ AuditsBefore :
          \A old \in AuditsBefore : new.id > old.id
     /\ \A i \in 1..Len(audits') : \A j \in 1..Len(audits') :
          i # j => audits'[i].id # audits'[j].id ]_vars

\* two processes have each committed a statement that wrote audit rows
C18_Witness ==
  \E p \in Procs : \E q \in Procs \ {p} :
    /\ result[p].code = "OK" /\ result[q].code = "OK"
    /\ Len(audits) >= 3
    /\ \E i \in 1..Len(audits) : \E j \in 1..Len(audits) :
         /\ audits[i].id < audits[j].id
         /\ audits[i].objectId = result[p].id
         /\ audits[j].objectId = result[q].id
         /\ result[p].id # result[q].id

\* the DELETE audit rows of task t in a log
DeleteRows(log, t) ==
  {i \in 1..Len(log) : log[i].eventType = "DELETE" /\ log[i].objectId = t}

C20_ArchivedHiddenByDefault ==
  \A t \in Live :
    tasks[t].archived =>
      /\ t \notin Range(listTasks(NoFilter))
      /\ t \notin Range(Export(FALSE))
      /\ t \in Range(listTasks([NoFilter EXCEPT !.includeArchived = TRUE]))
      /\ t \in Range(Export(TRUE))

\* C21: isBlocked(t) answers true exactly when t has a blocked_by link to a
\* task that is neither completed nor archived; related links, and blockers
\* that are all completed or archived, leave t unblocked.
C21_IsBlockedIffOpenBlocker ==
  \A t \in Live :
    isBlocked(t) <=>
      \E l \in links :
        /\ l.from = t /\ l.type = "blocked_by" /\ l.to \in Live
        /\ tasks[l.to].completedAt = NullTime
        /\ ~tasks[l.to].archived

\* C23: a task exported with includeMetadata parses back to its own id and
\* its original title, whatever the title holds (backslashes, "<!--", ...).
\* The parsed document of SpecTitle has one column with one task, and that
\* task carries the id and the title of the exported task.
C23_TitleAndIdRoundTrip ==
  codec.stage = "parsed" =>
    LET task == codec.tasksByColumn["todo"][1]
        cols == codec.parsed.columns
    IN /\ Len(cols) = 1
       /\ Len(cols[1].tasks) = 1
       /\ cols[1].tasks[1].id = <<task.id>>
       /\ cols[1].tasks[1].title = task.title

\* the part of C23 the code keeps: titles without an id comment of their own
C23_PlainTitlesRoundTrip ==
  (codec.stage = "parsed"
     /\ ~IdMatch(escapeMarkdown(codec.tasksByColumn["todo"][1].title)).found)
    => C23_TitleAndIdRoundTrip

C23_EscapedTitleParsed ==
  /\ codec.stage = "parsed"
  /\ Includes(codec.tasksByColumn["todo"][1].title, Open)
  /\ Includes(codec.tasksByColumn["todo"][1].title, Backslash)
  /\ C23_TitleAndIdRoundTrip
\* C24: the check mark appears in a task's exported text exactly when the
\* task's completedAt is set. The board of SpecBoard holds one task, so the
\* mark is in some line of the document iff that task is completed.
C24_CheckMarkIffCompleted ==
  codec.stage = "exported" =>
    ((\E i \in 1..Len(codec.doc) : Includes(codec.doc[i], Check))
       <=> codec.tasksByColumn["todo"][1].completedAt # NullTime)

\* C24 as the code has it: the check mark appears in a task's exported text
\* exactly when the task has a due date and its completedAt is set; the mark
\* then ends the due-date line.
C24_CheckMarkIffCompletedAndDue ==
  codec.stage = "exported" =>
    LET task  == codec.tasksByColumn["todo"][1]
        marks == {i \in 1..Len(codec.doc) : Includes(codec.doc[i], Check)}
    IN /\ marks # {} <=> (task.completedAt # NullTime /\ task.dueDate # NoDate)
       /\ \A i \in marks :
            codec.doc[i] = <<Indent, "@ ", task.dueDate.day, Blank, Check>>

C24_Witness ==
  /\ codec.stage = "exported"
  /\ codec.tasksByColumn["todo"][1].completedAt # NullTime
  /\ codec.tasksByColumn["todo"][1].dueDate # NoDate
  /\ \E i \in 1..Len(codec.doc) : Includes(codec.doc[i], Check)
\* C22: parse(export(B)) gives B back when no title holds a newline and no
\* description line starts with a tab or four blanks (true of every board of
\* SpecBoard): no parse errors, the same board name, the same columns in
\* order (name, WIP limit, terminal flag), and in each column the same tasks
\* with identical title, labels, description, due date and assignee.
SameTask(parsed, task) ==
  /\ parsed.title = task.title
  /\ parsed.labels = task.labels
  /\ parsed.description = task.description
  /\ parsed.dueDate = task.dueDate
  /\ parsed.assignedTo = task.assignedTo

SameColumn(parsed, column, list) ==
  /\ parsed.name = column.name
  /\ parsed.wipLimit = column.wipLimit
  /\ parsed.isTerminal = column.isTerminal
  /\ Len(parsed.tasks) = Len(list)
  /\ \A i \in 1..Len(list) : SameTask(parsed.tasks[i], SortByPosition(list)[i])

TasksOf(column) ==
  IF column.id \in DOMAIN codec.tasksByColumn
    THEN codec.tasksByColumn[column.id] ELSE << >>

C22_RoundTrip ==
  codec.stage = "parsed" =>
    LET sorted == SortByPosition(codec.columns)
    IN /\ codec.parsed.errors = << >>
       /\ codec.parsed.boardName = codec.board.name
       /\ Len(codec.parsed.columns) = Len(sorted)
       /\ \A i \in 1..Len(sorted) :
            SameColumn(codec.parsed.columns[i], sorted[i], TasksOf(sorted[i]))

\* the part of C22 the code keeps: boards whose titles and description
\* lines hold none of the words the parser looks for
NoKeyword(text) ==
  ~Includes(text, WipKey) /\ ~Includes(text, TermKey) /\ ~Includes(text, AssignKey)

C22_RoundTripWithoutKeywords ==
  (/\ codec.stage = "parsed"
   /\ LET task == codec.tasksByColumn["todo"][1]
      IN /\ NoKeyword(task.title)
         /\ \A i \in 1..Len(task.description) : NoKeyword(task.description[i]))
    => C22_RoundTrip
\* C25: for every filter, limit and offset, getHistory returns at most
\* min(limit, 1000) entries, each a row of audits that satisfies every
\* supplied member of the filter, in descending order of timestamp, and
\* hasMore is true exactly when there is a matching row beyond offset + limit.
Satisfies(row, filter) ==
  /\ filter.objectType = None \/ row.objectType = filter.objectType[1]
  /\ filter.objectId = None \/ row.objectId = filter.objectId[1]
  /\ filter.eventType = None \/ row.eventType = filter.eventType[1]
  /\ filter.actor = None \/ row.actor = filter.actor[1]
  /\ filter.since = None \/ row.timestamp >= filter.since[1]
  /\ filter.until = None \/ row.timestamp <= filter.until[1]

AskedLimit(filter) ==
  LET asked == IF filter.limit = None THEN DefaultLimit ELSE filter.limit[1]
  IN IF asked < HistoryCap THEN asked ELSE HistoryCap

C25_WitnessCap ==
  /\ answer.op = "getHistory"
  /\ answer.filter.limit = Some(2 * HistoryCap)
  /\ Len(answer.entries) = HistoryCap
  /\ answer.hasMore
\* C26: scoreTask evaluates the active scorers in insertion order and
\* returns a total equal to the sum of the values of its breakdown, which
\* holds one entry per active scorer; without scorers the total is 0 and the
\* breakdown is empty. The active scorers of a call are those of the array
\* its loop ran over.
RECURSIVE SumScores(_)
SumScores(breakdown) ==
  IF breakdown = << >> THEN 0
  ELSE Head(breakdown).score + SumScores(Tail(breakdown))

C26_TotalIsSumOfBreakdown ==
  \A s \in Slots :
    LET call == scoring.calls[s]
    IN call.state = "returned" =>
         /\ call.order = call.array
         /\ Len(call.breakdown) = Len(call.array)
         /\ call.totalScore = SumScores(call.breakdown)
         /\ call.array = << >> => call.totalScore = 0 /\ call.breakdown = << >>

\* the part of C26 the code keeps: calls whose scorers have distinct names
C26_DistinctNamesSum ==
  \A s \in Slots :
    LET call == scoring.calls[s]
    IN (/\ call.state = "returned"
        /\ \A i \in 1..Len(call.array) : \A j \in 1..Len(call.array) :
             call.array[i] = call.array[j] => i = j)
         => /\ call.order = call.array
            /\ Len(call.breakdown) = Len(call.array)
            /\ \A i \in 1..Len(call.array) : call.breakdown[i].name = call.array[i]
            /\ call.totalScore = SumScores(call.breakdown)
C27_WitnessOtherDay ==
  \E e1 \in scoring.evaluations : \E e2 \in scoring.evaluations :
    /\ e1.scorer = "fifo" /\ e2.scorer = "fifo"
    /\ e1.task = e2.task /\ e1.now # e2.now /\ e1.value # e2.value

\* C28: for every task and every now, each built-in scorer (fifo, priority,
\* due-date, blocking) returns a number greater than or equal to 0.
C28_ScoresNonNegative ==
  \A e \in scoring.evaluations : e.value >= 0

\* the part of C28 the code keeps: every scorer but fifo, and fifo on tasks
\* that were not created after now
C28_NonNegativeUnlessFromFuture ==
  \A e \in scoring.evaluations :
    (e.scorer # "fifo" \/ e.task.createdAt <= e.now) => e.value >= 0
\* C29: of two edits that ask for edges which are acyclic each on its own
\* and a cycle together, blocked_by(A,B) and blocked_by(B,A), at most one
\* commits: the table never holds both edges, and no two tasks depend on
\* each other.
C29_OppositeEdgesNotBoth ==
  \A a \in Live : \A b \in Live :
    a # b =>
      /\ ~(/\ Link(a, b, "blocked_by") \in links
           /\ Link(b, a, "blocked_by") \in links)
      /\ ~(b \in Range(tasks[a].dependsOn) /\ a \in Range(tasks[b].dependsOn))

\* the part of C29 the code keeps: a writer whose check runs after the other
\* writer's insert is refused
C29_LateCheckRefused ==
  [][\A p \in Procs : \A a \in 1..2 : \A b \in 1..2 :
       (/\ a # b
        /\ Link(b, a, "blocked_by") \in links
        /\ CreateLinkStart(p, a, b, "blocked_by"))
         => result'[p].code = "CYCLE"]_vars
\* C30: at every commit no two tasks of one column have the same position,
\* also when two writers insert or move into the column at the same time.
C30_PositionsUnique ==
  \A t \in Live : \A u \in Live :
    (t # u /\ tasks[t].columnId = tasks[u].columnId)
      => tasks[t].position # tasks[u].position

\* the part of C30 the code keeps: a write whose max + 1 is still the one
\* the column has now, no other writer having come between the read and the
\* write, leaves the positions of every column distinct
C30_FreshReadKeepsUnique ==
  [][\A p \in Procs :
       (/\ C30_PositionsUnique
        /\ proc[p].pc \in {"add_ins", "move_upd"}
        /\ proc[p].pos = MaxPosition(proc[p].col) + 1
        /\ (AddTaskInsert(p) \/ MoveTaskUpdate(p)))
         => C30_PositionsUnique']_vars
\* a step of a reported path: the edge asked for or a stored dependency
PathStep(r, a, b) ==
  \/ a = r.id /\ b = r.to
  \/ b \in Range(DependsOnMap[a])

C31_WitnessDfs ==
  /\ result[1] # NoResult
  /\ result[1].op = "wouldCreateCycle"
  /\ result[1].code = "CYCLE"
  /\ Len(result[1].path) = 4
\* the waits of a statement tried n times: BaseDelayMs, then twice the
\* wait before
Backoff(n) == [i \in 1..(n - 1) |-> BaseDelayMs * 2 ^ (i - 1)]

C32_OtherErrorsSurface ==
  [][\A p \in Procs :
       (/\ proc[p].pc = "mig_stmt"
        /\ <<Head(proc[p].toApply), proc[p].pos>> \in schema
        /\ MigrateStatement(p))
         => (/\ proc'[p].pc = "idle"
             /\ result'[p].code = "SQL_FAILED"
             /\ answer' = answer)]_vars

C32_WitnessRecovered ==
  /\ answer.op = "createDb"
  /\ answer.stage = "done"
  /\ answer.code = "OK"
  /\ answer.attempts = MaxAttempts
  /\ migrated = AllTags

C32_WitnessSqlFailed ==
  /\ answer.op = "createDb"
  /\ answer.stage = "done"
  /\ answer.code = "SQL_FAILED"
\* the targets of the blocked_by links of a task
BlockedByTargets(t) ==
  {l.to : l \in {k \in links : k.from = t /\ k.type = "blocked_by"}}

\* C33: whenever no edit is under way, the dependsOn array of every task
\* holds exactly the targets of the task's blocked_by links.
C33_DependsOnMirrorsLinks ==
  (\A p \in Procs : proc[p].pc = "idle") =>
    \A t \in Live : Range(tasks[t].dependsOn) = BlockedByTargets(t)
\* the non-archived tasks of column c other than task t
OthersIn(c, t) ==
  {u \in Live \ {t} : tasks[u].columnId = c /\ ~tasks[u].archived}

\* C34: the WIP test of a moveTask without force rejects the move of task
\* t into column c iff the non-archived tasks of c other than t already
\* number at least the limit of c.
C34_WipCountsOthers ==
  [][\A p \in Procs :
       (proc[p].pc = "move_wip" /\ ~proc[p].force /\ MoveTaskWip(p))
         => ((proc'[p].pc = "idle" /\ result'[p].code = "VALIDATION")
              <=> (/\ WipLimit(proc[p].col) # 0
                   /\ Cardinality(OthersIn(proc[p].col, proc[p].id))
                        >= WipLimit(proc[p].col)))]_vars

\* what the WIP test does: it counts every row of the column, the moved
\* task and archived tasks included
C34_WipCountsEveryRow ==
  [][\A p \in Procs :
       (proc[p].pc = "move_wip" /\ ~proc[p].force /\ MoveTaskWip(p))
         => ((proc'[p].pc = "idle" /\ result'[p].code = "VALIDATION")
              <=> (/\ WipLimit(proc[p].col) # 0
                   /\ getTaskCountInColumn(proc[p].col)
                        >= WipLimit(proc[p].col)))]_vars
\* the columns of a task row that the UPDATE of moveTask sets (updated_at,
\* which it sets too, is not part of the rows kept here)
MoveFields == {"columnId", "position", "version", "startedAt", "completedAt"}

\* C35: a moveTask that commits changes only the moved task, and of it only
\* columnId, position, version, startedAt and completedAt; every other
\* task keeps all its fields, its position included, no task appears or
\* disappears, and the columns, the board and the links stay as they are.
C35_MoveChangesOnlyTheTask ==
  [][\A p \in Procs :
       MoveCommits(p) =>
         /\ DOMAIN tasks' = DOMAIN tasks
         /\ \A u \in Live : \A f \in DOMAIN tasks[u] :
              (u # proc[p].id \/ f \notin MoveFields) => tasks'[u][f] = tasks[u][f]
         /\ columns' = columns
         /\ boards' = boards
         /\ links' = links]_vars

C35_Witness ==
  \E p \in Procs :
    /\ result[p].op = "moveTask" /\ result[p].code = "OK"
    /\ result[p].id \in Live
    /\ tasks[result[p].id].columnId = "done"
    /\ tasks[result[p].id].version > 1
    /\ \E u \in Live \ {result[p].id} : tasks[u].columnId = "review"
\* C36: wouldCreateCycle returns for every stored graph and every pair
\* of tasks, graphs with a cycle that does not pass through the candidate
\* task and lists naming deleted tasks included, and it goes into each task
\* at most once and never into the candidate task.
C36_EachTaskExpandedOnce ==
  answer.op = "wouldCreateCycle" =>
    /\ result[1].op = "wouldCreateCycle"
    /\ \A i \in 1..Len(answer.expanded) : \A j \in 1..Len(answer.expanded) :
         i # j => answer.expanded[i] # answer.expanded[j]
    /\ result[1].id \notin Range(answer.expanded)
    /\ Range(answer.expanded) \subseteq TaskIds

\* the search ran on a graph holding a cycle away from the candidate task, a
\* list naming a deleted task and a task named twice, and went into two tasks
C36_Witness ==
  /\ answer.op = "wouldCreateCycle"
  /\ result[1].code = "OK"
  /\ Len(answer.expanded) = 2
  /\ \E t \in Live : \E u \in Live \ {t, result[1].id} :
       /\ Len(tasks[t].dependsOn) = 2
       /\ tasks[t].dependsOn[1] = tasks[t].dependsOn[2]
       /\ tasks[t].dependsOn[1] = u
       /\ t \in Range(tasks[u].dependsOn)

C36_WitnessDeleted ==
  /\ answer.op = "wouldCreateCycle"
  /\ \E t \in Range(answer.expanded) : t \notin Live
\* C37: a run of runMigrations that is not stopped itself, on a database
\* that earlier runs may have left at any point, ends without error and
\* with every migration of the journal applied and recorded.
C37_RerunCompletes ==
  \A p \in Procs :
    (proc[p].pc = "idle" /\ result[p].op = "runMigrations"
       /\ result[p].code # "STOPPED")
      => /\ result[p].code = "OK"
         /\ migrated = AllTags
         /\ schema = AllStatements

\* what the later run does instead: it fails at the first statement the
\* stopped run had already applied, and changes nothing
C37_RerunFailsOnAppliedStatement ==
  [][\A p \in Procs :
       (/\ proc[p].pc = "mig_stmt"
        /\ <<Head(proc[p].toApply), proc[p].pos>> \in schema
        /\ MigrateStatement(p))
         => (/\ result'[p].code = "SQL_FAILED"
             /\ schema' = schema
             /\ migrated' = migrated)]_vars
\* C38: of runs of runMigrations that overlap on one database none fails,
\* and once they are all back every migration has taken effect and every
\* tag is recorded.
C38_ConcurrentRunsSucceed ==
  /\ \A p \in Procs :
       (proc[p].pc = "idle" /\ result[p].op = "runMigrations")
         => result[p].code = "OK"
  /\ ((\A p \in Procs : proc[p].pc = "idle")
        /\ (\E p \in Procs : result[p].op = "runMigrations"))
       => (migrated = AllTags /\ schema = AllStatements)

\* what stays true of overlapping runs: no statement takes effect a second
\* time and no tag is recorded twice, because the second attempt fails
C38_NothingAppliedTwice ==
  [][\A p \in Procs :
       /\ (MigrateStatement(p) /\ <<Head(proc[p].toApply), proc[p].pos>> \in schema)
            => (schema' = schema /\ result'[p].code = "SQL_FAILED")
       /\ (MigrateRecord(p) /\ Head(proc[p].toApply) \in migrated)
            => (migrated' = migrated /\ result'[p].code = "SQL_FAILED")]_vars

\* the keys that close a modal
CloseKeys(modal) ==
  CASE modal = "addTask" -> {"escape"}
    [] modal = "quit"    -> {"n", "escape"}
    [] modal = "help"    -> Keys
    [] OTHER             -> {}

C39_OnlyTheDispatcherCloses ==
  [][(app.activeModal # "none" /\ app'.activeModal = "none")
       => \E key \in Keys : HandleKeypress(key)]_vars

====
